---- MODULE Spec2Model ----
(***************************************************************************)
(* State-machine model of the trading-simulation kernel of quantstock:     *)
(*   Portfolio        src/src/portfolio_module/portfolio.py                *)
(*   SimulatedBroker  src/src/execution_module/brokers/simulated_broker.py *)
(*                                                                         *)
(* Money amounts are Python floats in the source.  The model computes them *)
(* as exact rationals [n |-> numerator, d |-> denominator] in lowest terms *)
(* with d > 0; the value None of the source is the record with d = 0.      *)
(* Quantities are drawn from the whole numbers.                            *)
(***************************************************************************)
EXTENDS Integers, Sequences, FiniteSets, TLC

(***************************************************************************)
(* Bounds of the model                                                     *)
(***************************************************************************)
MaxPrice == 3
MaxQty == 2
MaxFills == 3
MaxHistory == 4
MaxOrders == 2
InitialCash == 4

Symbols == {"A", "B"}
Prices == 1..MaxPrice
Quantities == 1..MaxQty

(***************************************************************************)
(* Exact rational arithmetic                                               *)
(***************************************************************************)
Abs(x) == IF x < 0 THEN -x ELSE x

RECURSIVE GCD(_, _)
GCD(a, b) == IF b = 0 THEN a ELSE GCD(b, a % b)

Rat(num, den) ==
    LET g == GCD(Abs(num), Abs(den))
        s == IF den < 0 THEN -1 ELSE 1
    IN [n |-> (s * num) \div g, d |-> (s * den) \div g]

RInt(i) == [n |-> i, d |-> 1]
Zero == RInt(0)
None == [n |-> 0, d |-> 0]
IsNone(x) == x.d = 0

LCM(a, b) == (a \div GCD(a, b)) * b
RAdd(a, b) ==
    LET l == LCM(a.d, b.d) IN Rat(a.n * (l \div a.d) + b.n * (l \div b.d), l)
RSub(a, b) ==
    LET l == LCM(a.d, b.d) IN Rat(a.n * (l \div a.d) - b.n * (l \div b.d), l)
RMul(a, b) == Rat(a.n * b.n, a.d * b.d)
RDiv(a, b) == Rat(a.n * b.d, a.d * b.n)
RLe(a, b) == a.n * b.d <= b.n * a.d
RLt(a, b) == a.n * b.d < b.n * a.d
RGe(a, b) == RLe(b, a)
RGt(a, b) == RLt(b, a)

VARIABLES
    cash,               \* Portfolio.cash
    positions,          \* Portfolio.positions: symbol -> position record
    trade_log,          \* Portfolio.trade_log
    portfolio_history,  \* Portfolio.portfolio_history
    pf_provider,        \* Portfolio.market_data_provider is set
    is_connected,       \* SimulatedBroker.is_connected
    cash_balance,       \* SimulatedBroker.cash_balance
    broker_positions,   \* SimulatedBroker.positions: symbol -> [quantity, avg_price]
    orders,             \* SimulatedBroker.orders: order id -> order record
    pending_orders,     \* SimulatedBroker.pending_orders: order id -> order as placed
    trade_history,      \* SimulatedBroker.trade_history: the orders filled, by id
    br_provider,        \* SimulatedBroker.market_data_provider is set
    portfolio_ref,      \* SimulatedBroker.portfolio_ref is set
    commission_per_trade, \* SimulatedBroker.commission_per_trade
    slippage_model,     \* SimulatedBroker.slippage_model
    ids_issued,         \* how many order ids uuid4() has handed out
    current_capital,    \* SimpleRiskManager.current_capital
    high_water_mark,    \* SimpleRiskManager.high_water_mark
    current_total_risk_amount, \* SimpleRiskManager.current_total_risk_amount
    positions_risk,     \* SimpleRiskManager.positions_risk: symbol -> risk amount
    position_sizing_method, \* SimpleRiskManager.position_sizing_method
    lastOp,             \* the last call made, its arguments and what it returned
    engine              \* BacktestingEngine: its data stream, snapshot table and
                        \* place in run_backtest, with what its runs have recorded

pfVars == <<cash, positions, trade_log, portfolio_history, pf_provider>>
ledgerVars == <<cash, positions, trade_log, portfolio_history>>
configVars == <<commission_per_trade, slippage_model>>
bookVars == <<cash_balance, broker_positions, orders, pending_orders, trade_history>>
brokerVars == <<is_connected, cash_balance, broker_positions, orders, pending_orders,
                trade_history, br_provider, portfolio_ref, ids_issued>>
ledgerRiskVars == <<current_capital, high_water_mark, current_total_risk_amount,
                    positions_risk>>
riskVars == <<ledgerRiskVars, position_sizing_method>>
vars == <<pfVars, brokerVars, configVars, riskVars, lastOp, engine>>

(***************************************************************************)
(* Portfolio                                                               *)
(***************************************************************************)

\* Sum of f[k] over the keys of a finite map of rationals.
RECURSIVE SumOver(_, _)
SumOver(f, keys) ==
    IF keys = {} THEN Zero
    ELSE LET k == CHOOSE x \in keys : TRUE
         IN RAdd(f[k], SumOver(f, keys \ {k}))

\* What market_data_provider.get_current_price can hand back for a symbol:
\* a price, or nothing usable (None, a dict without a price, an exception).
QuoteVals == {None, RInt(MaxPrice)}

\* A slip of _update_market_values: a position whose quantity is 0 is skipped and
\* keeps the market value it had.
UpdateMarketValuesStale(pos, quotes) ==
    [s \in DOMAIN pos |->
        IF pos[s].quantity = 0 THEN pos[s]
        ELSE LET current_price ==
                     IF IsNone(quotes[s]) THEN pos[s].avg_price ELSE quotes[s]
             IN [pos[s] EXCEPT
                    !.current_price = current_price,
                    !.market_value = RMul(RInt(pos[s].quantity), current_price),
                    !.unrealized_pnl = RMul(RSub(current_price, pos[s].avg_price),
                                            RInt(pos[s].quantity))]]

\* Portfolio._update_market_values() for all symbols.
UpdateMarketValues(pos, quotes) ==
    [s \in DOMAIN pos |->
        IF pos[s].quantity = 0
        THEN [pos[s] EXCEPT !.current_price = Zero,
                            !.market_value = Zero,
                            !.unrealized_pnl = Zero]
        ELSE LET current_price ==
                     IF IsNone(quotes[s]) THEN pos[s].avg_price ELSE quotes[s]
             IN [pos[s] EXCEPT
                    !.current_price = current_price,
                    !.market_value = RMul(RInt(pos[s].quantity), current_price),
                    !.unrealized_pnl = RMul(RSub(current_price, pos[s].avg_price),
                                            RInt(pos[s].quantity))]]

\* Portfolio.get_total_value() on positions whose market values are current.
TotalValue(c, pos) ==
    RAdd(c, SumOver([s \in DOMAIN pos |-> pos[s].market_value], DOMAIN pos))

\* The record Portfolio._record_portfolio_value() appends.
HistoryRecord(c, pos) ==
    LET current_total_value == TotalValue(c, pos)
    IN [total_value |-> current_total_value,
        cash |-> c,
        positions_value |-> RSub(current_total_value, c)]

\* update_fill's first test: the fill event is usable.
ValidFill(fill) ==
    /\ fill.symbol # ""
    /\ fill.action # ""
    /\ fill.quantity > 0
    /\ RGt(fill.price, Zero)

NewPosition ==
    [quantity |-> 0, avg_price |-> Zero, total_cost |-> Zero, realized_pnl |-> Zero,
     current_price |-> Zero, market_value |-> Zero, unrealized_pnl |-> Zero]

\* A slip of the oversell test: one share more than is held may be sold.
SellRejectedOffByOne(pos, fill) ==
    \/ fill.symbol \notin DOMAIN pos
    \/ pos[fill.symbol].quantity + 1 < fill.quantity

\* update_fill rejects a SELL of more than is held (or of a symbol not held).
SellRejected(pos, fill) ==
    \/ fill.symbol \notin DOMAIN pos
    \/ pos[fill.symbol].quantity < fill.quantity

\* A slip of the average: the mean of the old average and the fill price,
\* whatever the quantities.
BuyPositionPlainMean(p, fill) ==
    [p EXCEPT !.quantity = p.quantity + fill.quantity,
              !.total_cost = RAdd(p.total_cost, RMul(RInt(fill.quantity), fill.price)),
              !.avg_price = RDiv(RAdd(p.avg_price, fill.price), RInt(2))]

\* The position after a BUY fill.
BuyPosition(p, fill) ==
    LET value == RMul(RInt(fill.quantity), fill.price)
        new_total_cost == RAdd(RMul(RInt(p.quantity), p.avg_price), value)
        quantity == p.quantity + fill.quantity
    IN [p EXCEPT !.quantity = quantity,
                 !.total_cost = RAdd(p.total_cost, value),
                 !.avg_price = IF quantity > 0 THEN RDiv(new_total_cost, RInt(quantity))
                               ELSE Zero]

\* realized_pnl_this_trade of a SELL fill.
RealizedPnlTrade(p, fill) ==
    LET cost_of_sold_shares == RMul(p.avg_price, RInt(fill.quantity))
        proceeds == RMul(RInt(fill.quantity), fill.price)
    IN RSub(RSub(proceeds, cost_of_sold_shares), fill.commission)

\* A slip of the sale: the realized PnL of the last sale replaces the running
\* sum.
SellPositionLastSaleOnly(p, fill) ==
    [p EXCEPT !.realized_pnl = RSub(RSub(RMul(RInt(fill.quantity), fill.price),
                                         RMul(p.avg_price, RInt(fill.quantity))),
                                    fill.commission),
              !.quantity = p.quantity - fill.quantity,
              !.total_cost = RSub(p.total_cost, RMul(p.avg_price, RInt(fill.quantity)))]

\* The position after an accepted SELL fill.
SellPosition(p, fill) ==
    [p EXCEPT !.realized_pnl = RAdd(p.realized_pnl, RealizedPnlTrade(p, fill)),
              !.quantity = p.quantity - fill.quantity,
              !.total_cost = RSub(p.total_cost, RMul(p.avg_price, RInt(fill.quantity)))]

\* Cash after the fill's cash update.
\* A slip of the cash update: the commission is left out.
CashAfterNoCommission(c, fill) ==
    LET value == RMul(RInt(fill.quantity), fill.price)
    IN IF fill.action = "BUY" THEN RSub(c, value) ELSE RAdd(c, value)

CashAfter(c, fill) ==
    LET value == RMul(RInt(fill.quantity), fill.price)
    IN IF fill.action = "BUY" THEN RSub(c, RAdd(value, fill.commission))
       ELSE RAdd(c, RSub(value, fill.commission))

\* A slip of the revert: the commission is left out.
RevertCashNoCommission(c, fill) == RSub(c, RMul(RInt(fill.quantity), fill.price))

\* A rejected SELL takes its cash update back.
RevertCash(c, fill) ==
    RSub(c, RSub(RMul(RInt(fill.quantity), fill.price), fill.commission))

\* Does update_fill(fill) reach the trade log?
FillAccepted(pos, fill) ==
    /\ ValidFill(fill)
    /\ fill.action \in {"BUY", "SELL"}
    /\ fill.action = "SELL" => ~SellRejected(pos, fill)

\* Positions after an accepted fill, before the market values are refreshed.
FilledPositions(pos, fill) ==
    LET s == fill.symbol
        old == IF s \in DOMAIN pos THEN pos[s] ELSE NewPosition
        new == IF fill.action = "BUY" THEN BuyPosition(old, fill)
               ELSE SellPosition(old, fill)
    IN [x \in DOMAIN pos \cup {s} |-> IF x = s THEN new ELSE pos[x]]

\* A slip of the log entry: every fill is logged as a BUY.
TradeLogEntryAsBuy(pos, c, fill) ==
    [symbol |-> fill.symbol, action |-> "BUY", quantity |-> fill.quantity,
     price |-> fill.price, commission |-> fill.commission, order_id |-> fill.order_id,
     realized_pnl_trade |-> Zero,
     cash_after_trade |-> c]

\* The entry update_fill appends to trade_log.
TradeLogEntry(pos, c, fill) ==
    [symbol |-> fill.symbol, action |-> fill.action, quantity |-> fill.quantity,
     price |-> fill.price, commission |-> fill.commission, order_id |-> fill.order_id,
     realized_pnl_trade |-> IF fill.action = "SELL"
                            THEN RealizedPnlTrade(pos[fill.symbol], fill) ELSE Zero,
     cash_after_trade |-> c]

\* Portfolio.update_fill(fill) as a function of the ledger pf; quotes are what the
\* provider answers while the market values are refreshed.
UpdateFill(pf, fill, quotes) ==
    IF ~ValidFill(fill) THEN pf
    ELSE IF fill.action \notin {"BUY", "SELL"} THEN pf
    ELSE LET c == CashAfter(pf.cash, fill)
         IN IF fill.action = "SELL" /\ SellRejected(pf.positions, fill)
            THEN [pf EXCEPT !.cash = RevertCash(c, fill)]
            ELSE LET pos == UpdateMarketValues(FilledPositions(pf.positions, fill), quotes)
                 IN [cash |-> c,
                     positions |-> pos,
                     trade_log |-> Append(pf.trade_log,
                                          TradeLogEntry(pf.positions, c, fill)),
                     portfolio_history |-> Append(pf.portfolio_history,
                                                  HistoryRecord(c, pos))]

Ledger == [cash |-> cash, positions |-> positions, trade_log |-> trade_log,
           portfolio_history |-> portfolio_history]

(***************************************************************************)
(* SimulatedBroker                                                         *)
(***************************************************************************)
Terminal == {"filled", "rejected", "cancelled"}

FixedSlippage == Rat(1, 100)
PercentageSlippage == Rat(5, 10000)

\* SimulatedBroker._apply_slippage(price, action)
ApplySlippage(model, price, action) ==
    IF model = "none" THEN price
    ELSE LET slippage_amount ==
                 IF model = "fixed" THEN FixedSlippage
                 ELSE IF model = "percentage" THEN RMul(price, PercentageSlippage)
                 ELSE Zero
         IN IF action = "BUY" THEN RAdd(price, slippage_amount)
            ELSE IF action = "SELL" THEN RSub(price, slippage_amount)
            ELSE price

\* The broker's books and the Portfolio ledger it writes to, as one value.
World == [cash_balance |-> cash_balance, positions |-> broker_positions,
          orders |-> orders, pending_orders |-> pending_orders,
          trade_history |-> trade_history, pf |-> Ledger]

Result(status, order_id, message, filled_quantity, filled_price) ==
    [status |-> status, order_id |-> order_id, message |-> message,
     filled_quantity |-> filled_quantity, filled_price |-> filled_price]

\* A slip of the cash test: cash equal to the total cost does not cover it.
BuyCoveredStrict(balance, total_cost) == RGt(balance, total_cost)

\* _execute_order: a BUY is filled when the cash covers value plus commission.
BuyCovered(balance, total_cost) == RGe(balance, total_cost)

\* _execute_order: a SELL is filled when the position covers the quantity.
SellCovered(pos, symbol, quantity) ==
    symbol \in DOMAIN pos /\ pos[symbol].quantity >= quantity

\* _execute_order: the broker's position after a filled BUY.
BrokerBuy(pos, symbol, quantity, filled_price) ==
    LET old == IF symbol \in DOMAIN pos THEN pos[symbol]
               ELSE [quantity |-> 0, avg_price |-> Zero]
        new_total_value == RAdd(RMul(RInt(old.quantity), old.avg_price),
                                RMul(RInt(quantity), filled_price))
        new_total_qty == old.quantity + quantity
        new == [quantity |-> new_total_qty,
                avg_price |-> IF new_total_qty > 0
                              THEN RDiv(new_total_value, RInt(new_total_qty)) ELSE Zero]
    IN [x \in DOMAIN pos \cup {symbol} |-> IF x = symbol THEN new ELSE pos[x]]

\* _execute_order: the broker's position after a filled SELL.
BrokerSell(pos, symbol, quantity) ==
    LET left == pos[symbol].quantity - quantity
    IN [pos EXCEPT ![symbol] = [quantity |-> left,
                                avg_price |-> IF left = 0 THEN Zero
                                              ELSE pos[symbol].avg_price]]

\* The order record _execute_order files for an id it has not seen.
NewOrderRecord(order) ==
    [symbol |-> order.symbol, action |-> order.action, quantity |-> order.quantity,
     order_type |-> order.order_type, price |-> order.price,
     stop_price |-> order.stop_price, order_id |-> order.order_id,
     status |-> "pending_execution", message |-> "",
     filled_quantity |-> 0, avg_fill_price |-> None]

\* The status _execute_order gives a well-formed order.
ExecStatus(w, order, filled_price, commission) ==
    LET total_cost == RAdd(RMul(RInt(order.quantity), filled_price), commission)
    IN IF order.action = "BUY"
       THEN IF BuyCovered(w.cash_balance, total_cost) THEN "filled" ELSE "rejected"
       ELSE IF order.action = "SELL"
       THEN IF SellCovered(w.positions, order.symbol, order.quantity)
            THEN "filled" ELSE "rejected"
       ELSE "failed"

ExecMessage(order, status) ==
    IF status = "filled" THEN order.action \o " order filled"
    ELSE IF status = "failed" THEN "Invalid action"
    ELSE IF order.action = "BUY" THEN "Insufficient cash" ELSE "Insufficient position"

\* SimulatedBroker._execute_order(order) on a connected broker: the world after
\* it and the result it returns.  quote is what the broker's provider answers
\* for the symbol; pquotes is what the Portfolio's provider answers.
ExecuteOrder(w, order, quote, pquotes, cfg) ==
    IF ~(order.symbol # "" /\ order.action # "" /\ order.quantity > 0
         /\ ~IsNone(order.price))
    THEN [w |-> w,
          result |-> Result("failed", order.order_id, "Invalid order fields", 0, None)]
    ELSE
    LET order_id == order.order_id
        execution_price == IF IsNone(quote) THEN order.price ELSE quote
        filled_price == ApplySlippage(cfg.slippage_model, execution_price, order.action)
        order_value == RMul(RInt(order.quantity), filled_price)
        status == ExecStatus(w, order, filled_price, cfg.commission_per_trade)
        message == ExecMessage(order, status)
        filed == IF order_id \in DOMAIN w.orders THEN w.orders[order_id]
                 ELSE NewOrderRecord(order)
        updated == [filed EXCEPT
                       !.status = status,
                       !.filled_quantity = IF status = "filled" THEN order.quantity ELSE 0,
                       !.avg_fill_price = IF status = "filled" THEN filled_price ELSE None,
                       !.message = message]
        orders1 == [i \in DOMAIN w.orders \cup {order_id} |->
                       IF i = order_id THEN updated ELSE w.orders[i]]
        fill_event == [symbol |-> order.symbol, action |-> order.action,
                       quantity |-> order.quantity, price |-> filled_price,
                       commission |-> cfg.commission_per_trade, order_id |-> order_id]
        w1 == IF status # "filled" THEN [w EXCEPT !.orders = orders1]
              ELSE [w EXCEPT
                      !.orders = orders1,
                      !.cash_balance =
                          IF order.action = "BUY"
                          THEN RSub(w.cash_balance,
                                    RAdd(order_value, cfg.commission_per_trade))
                          ELSE RAdd(w.cash_balance,
                                    RSub(order_value, cfg.commission_per_trade)),
                      !.positions =
                          IF order.action = "BUY"
                          THEN BrokerBuy(w.positions, order.symbol, order.quantity,
                                         filled_price)
                          ELSE BrokerSell(w.positions, order.symbol, order.quantity),
                      !.trade_history = Append(w.trade_history, order_id),
                      !.pf = IF cfg.portfolio_ref
                             THEN UpdateFill(w.pf, fill_event, pquotes) ELSE w.pf]
    IN [w |-> w1,
        result |-> Result(status, order_id, message,
                          IF status = "filled" THEN order.quantity ELSE 0,
                          IF status = "filled" THEN filled_price ELSE None)]

\* process_pending_orders: the stop condition of a STOP or STOP_LIMIT order.
StopTriggered(order, close) ==
    \/ order.action = "BUY" /\ RGe(close, order.stop_price)
    \/ order.action = "SELL" /\ RLe(close, order.stop_price)

\* A slip of the limit condition: the comparisons are strict.
LimitHoldsStrict(order, close) ==
    \/ order.action = "BUY" /\ RLt(close, order.price)
    \/ order.action = "SELL" /\ RGt(close, order.price)

\* process_pending_orders: the limit condition of a LIMIT or STOP_LIMIT order.
LimitHolds(order, close) ==
    \/ order.action = "BUY" /\ RLe(close, order.price)
    \/ order.action = "SELL" /\ RGe(close, order.price)

\* A slip of should_execute: a STOP_LIMIT order goes once its stop is reached,
\* like a STOP order.
ShouldExecuteOnStop(order, close) ==
    IF order.order_type = "LIMIT"
    THEN \/ order.action = "BUY" /\ RLe(close, order.price)
         \/ order.action = "SELL" /\ RGe(close, order.price)
    ELSE IF order.order_type \in {"STOP", "STOP_LIMIT"}
    THEN \/ order.action = "BUY" /\ RGe(close, order.stop_price)
         \/ order.action = "SELL" /\ RLe(close, order.stop_price)
    ELSE FALSE

\* process_pending_orders: should_execute for one pending order at a bar close.
ShouldExecute(order, close) ==
    IF order.order_type = "LIMIT" THEN LimitHolds(order, close)
    ELSE IF order.order_type = "STOP" THEN StopTriggered(order, close)
    ELSE IF order.order_type = "STOP_LIMIT"
    THEN StopTriggered(order, close) /\ LimitHolds(order, close)
    ELSE FALSE

Without(f, k) == [x \in DOMAIN f \ {k} |-> f[x]]
Min(S) == CHOOSE x \in S : \A y \in S : x <= y

\* The loop of process_pending_orders over the orders queued when it starts,
\* in the order they were queued.  data maps a symbol to its bar close.
RECURSIVE ProcessLoop(_, _, _, _, _, _, _)
ProcessLoop(w, queued, todo, data, quotes, pquotes, cfg) ==
    IF todo = {} THEN w
    ELSE LET order_id == Min(todo)
             order == queued[order_id]
             rest == todo \ {order_id}
         IN IF order.symbol \notin DOMAIN data
            THEN ProcessLoop(w, queued, rest, data, quotes, pquotes, cfg)
            ELSE IF ~ShouldExecute(order, data[order.symbol])
            THEN ProcessLoop(w, queued, rest, data, quotes, pquotes, cfg)
            ELSE LET order_copy == [order EXCEPT !.price = data[order.symbol],
                                                 !.order_type = "MARKET"]
                     w1 == [w EXCEPT !.pending_orders = Without(@, order_id)]
                     done == ExecuteOrder(w1, order_copy, quotes[order.symbol], pquotes,
                                          cfg)
                 IN ProcessLoop(done.w, queued, rest, data, quotes, pquotes, cfg)

\* SimulatedBroker.process_pending_orders(current_market_data)
ProcessPendingOrders(w, connected, data, quotes, pquotes, cfg) ==
    IF ~connected \/ DOMAIN w.pending_orders = {} THEN w
    ELSE ProcessLoop(w, w.pending_orders, DOMAIN w.pending_orders, data, quotes,
                     pquotes, cfg)

\* place_order's validation: the message of the failure, "" when the order passes.
PlaceOrderError(order) ==
    IF ~(order.symbol # "" /\ order.action \in {"BUY", "SELL"} /\ order.quantity > 0)
    THEN "Invalid order fields"
    ELSE IF order.order_type \in {"LIMIT", "STOP_LIMIT"} /\ IsNone(order.price)
    THEN "Missing price"
    ELSE IF order.order_type \in {"STOP", "STOP_LIMIT"} /\ IsNone(order.stop_price)
    THEN "Missing stop_price"
    ELSE ""

\* A slip of the record: a conditional order is filed as _execute_order files
\* a new order, with the status pending_execution.
PendingRecordAsExecuting(order_with_id) == NewOrderRecord(order_with_id)

\* place_order: the record filed for a conditional order.
PendingRecord(order_with_id) ==
    [NewOrderRecord(order_with_id) EXCEPT !.status = "pending",
                                          !.message = "order pending execution"]

\* SimulatedBroker.place_order(order) on a connected broker, order_id fresh.
PlaceOrder(w, order, order_id, quote, pquotes, cfg) ==
    LET order_with_id ==
            [symbol |-> order.symbol, action |-> order.action,
             quantity |-> order.quantity, order_type |-> order.order_type,
             price |-> order.price, stop_price |-> order.stop_price,
             order_id |-> order_id]
    IN IF PlaceOrderError(order) # ""
       THEN [w |-> w, result |-> Result("failed", order_id, PlaceOrderError(order), 0, None)]
       ELSE IF order.order_type = "MARKET"
       THEN ExecuteOrder(w, order_with_id, quote, pquotes, cfg)
       ELSE [w |-> [w EXCEPT
                      !.orders = [i \in DOMAIN @ \cup {order_id} |->
                                     IF i = order_id THEN PendingRecord(order_with_id)
                                     ELSE @[i]],
                      !.pending_orders = [i \in DOMAIN @ \cup {order_id} |->
                                             IF i = order_id THEN order_with_id ELSE @[i]]],
             result |-> Result("pending", order_id, "order accepted and pending execution",
                               0, None)]

\* Slips of the status test of cancel_order: a state is missing from the list.
CancellableRejected(status) == status \notin {"filled", "cancelled", "failed"}
CancellableFilled(status) == status \notin {"rejected", "cancelled", "failed"}

\* cancel_order: only an order that is not in one of these states is cancelled.
Cancellable(status) == status \notin {"filled", "rejected", "cancelled", "failed"}

\* A slip of cancel_order: the order stays in the pending queue.
CancelOrderStillQueued(w, order_id) ==
    IF order_id \in DOMAIN w.orders
    THEN IF w.orders[order_id].status \notin {"filled", "rejected", "cancelled", "failed"}
         THEN [w |-> [w EXCEPT
                        !.orders[order_id].status = "cancelled",
                        !.orders[order_id].message = "Order cancelled by user."],
               result |-> [status |-> "cancelled",
                           message |-> "Order cancelled successfully."]]
         ELSE [w |-> w,
               result |-> [status |-> "failed",
                           message |-> "Order cannot be cancelled (status: "
                                       \o w.orders[order_id].status \o ")."]]
    ELSE [w |-> w, result |-> [status |-> "failed", message |-> "Order ID not found"]]

\* SimulatedBroker.cancel_order(order_id)
CancelOrder(w, order_id) ==
    IF order_id \in DOMAIN w.orders
    THEN IF Cancellable(w.orders[order_id].status)
         THEN [w |-> [w EXCEPT
                        !.pending_orders = IF order_id \in DOMAIN @
                                           THEN Without(@, order_id) ELSE @,
                        !.orders[order_id].status = "cancelled",
                        !.orders[order_id].message = "Order cancelled by user."],
               result |-> [status |-> "cancelled",
                           message |-> "Order cancelled successfully."]]
         ELSE [w |-> w,
               result |-> [status |-> "failed",
                           message |-> "Order cannot be cancelled (status: "
                                       \o w.orders[order_id].status \o ")."]]
    ELSE [w |-> w, result |-> [status |-> "failed", message |-> "Order ID not found"]]

(***************************************************************************)
(* SimpleRiskManager     src/src/risk_module/simple_risk_manager.py        *)
(***************************************************************************)
InitialCapital == 100000
MaxRiskPerTradePct == Rat(2, 100)
MaxTotalRiskPct == Rat(5, 100)
MaxDrawdownLimitPct == Rat(1, 10)
MaxOrderValuePct == Rat(1, 10)
MaxPositionPctAsset == Rat(2, 10)
MinCashBalancePct == Rat(5, 100)
SizingMethods == {"percent_risk", "fixed_amount_per_trade", "fixed_quantity"}

RMin(a, b) == IF RLe(a, b) THEN a ELSE b
RMax(a, b) == IF RGe(a, b) THEN a ELSE b
RAbs(a) == [n |-> Abs(a.n), d |-> a.d]
\* float(int(x)): the whole part of x.
Trunc(x) == IF x.n >= 0 THEN RInt(x.n \div x.d) ELSE RInt(-((-x.n) \div x.d))

\* The quantity 'all' of a signal, and float('inf').
All == [n |-> 1, d |-> 0]
Inf == [n |-> 2, d |-> 0]
IsNumber(q) == q.d # 0

\* The risk manager's capital view and risk ledger, as one value.
RiskState == [current_capital |-> current_capital,
              high_water_mark |-> high_water_mark,
              current_total_risk_amount |-> current_total_risk_amount,
              positions_risk |-> positions_risk]

\* portfolio_state.get('total_value') and .get('cash', 0); a key that is absent
\* is None here.  empty is the dict {}.
PortfolioState(total_value, cash_value) ==
    [total_value |-> total_value, cash |-> cash_value, empty |-> FALSE]
EmptyState == [total_value |-> None, cash |-> None, empty |-> TRUE]
Get(value, default) == IF IsNone(value) THEN default ELSE value

\* position_state: None, or a position record with its quantity.
PositionState(quantity) == [present |-> TRUE, quantity |-> quantity]
NoPositionState == [present |-> FALSE, quantity |-> 0]

\* A slip of update_portfolio_state: the high water mark follows the capital down.
UpdatePortfolioStateNoPeak(rm, ps) ==
    IF IsNone(ps.total_value) THEN rm
    ELSE [rm EXCEPT !.current_capital = ps.total_value,
                    !.high_water_mark = ps.total_value]

\* SimpleRiskManager.update_portfolio_state(portfolio_state)
UpdatePortfolioState(rm, ps) ==
    IF IsNone(ps.total_value) THEN rm
    ELSE [rm EXCEPT !.current_capital = ps.total_value,
                    !.high_water_mark = IF RGt(ps.total_value, @)
                                        THEN ps.total_value ELSE @]

\* SimpleRiskManager._calculate_current_drawdown()
CalculateCurrentDrawdown(rm) ==
    IF rm.high_water_mark = Zero THEN Zero
    ELSE LET drawdown == RDiv(RSub(rm.high_water_mark, rm.current_capital),
                              rm.high_water_mark)
         IN IF RGt(drawdown, Zero) THEN drawdown ELSE Zero

\* A slip of the breaker test: a drawdown equal to the limit does not trigger it.
DrawdownReachedStrict(rm) == RGt(CalculateCurrentDrawdown(rm), MaxDrawdownLimitPct)

\* The breaker test of validate_signal, calculate_max_position_size and
\* adjust_order_size.
DrawdownReached(rm) == RGe(CalculateCurrentDrawdown(rm), MaxDrawdownLimitPct)

\* A slip of the risk amount: the whole entry price is counted per unit.
GetRiskAmountForTradeNotional(entry_price, stop_loss_price, quantity) ==
    IF RLe(quantity, Zero) \/ RLe(entry_price, Zero) \/ RLe(stop_loss_price, Zero)
    THEN Zero
    ELSE RMul(entry_price, quantity)

\* SimpleRiskManager._get_risk_amount_for_trade
GetRiskAmountForTrade(entry_price, stop_loss_price, quantity) ==
    IF RLe(quantity, Zero) \/ RLe(entry_price, Zero) \/ RLe(stop_loss_price, Zero)
    THEN Zero
    ELSE RMul(RAbs(RSub(entry_price, stop_loss_price)), quantity)

RiskOf(ledger, symbol) == IF symbol \in DOMAIN ledger THEN ledger[symbol] ELSE Zero

\* A slip of the allocation: the symbol's earlier entry is not deducted from
\* the aggregate.
AddPositionRiskDoubleCount(rm, symbol, risk_amount) ==
    IF RLe(risk_amount, Zero) THEN rm
    ELSE [rm EXCEPT
            !.current_total_risk_amount = RAdd(@, risk_amount),
            !.positions_risk = [x \in DOMAIN @ \cup {symbol} |->
                                   IF x = symbol THEN risk_amount ELSE @[x]]]

\* SimpleRiskManager._add_position_risk
AddPositionRisk(rm, symbol, risk_amount) ==
    IF RLe(risk_amount, Zero) THEN rm
    ELSE [rm EXCEPT
            !.current_total_risk_amount =
                RAdd(RSub(@, RiskOf(rm.positions_risk, symbol)), risk_amount),
            !.positions_risk = [x \in DOMAIN @ \cup {symbol} |->
                                   IF x = symbol THEN risk_amount ELSE @[x]]]

\* A slip of the removal: the entry goes, the aggregate keeps its amount.
RemovePositionRiskEntryOnly(rm, symbol) ==
    [rm EXCEPT !.positions_risk = [x \in DOMAIN @ \ {symbol} |-> @[x]]]

\* SimpleRiskManager._remove_position_risk
RemovePositionRisk(rm, symbol) ==
    [rm EXCEPT
       !.current_total_risk_amount = RSub(@, RiskOf(rm.positions_risk, symbol)),
       !.positions_risk = [x \in DOMAIN @ \ {symbol} |-> @[x]]]

\* not all([action, symbol, price]) or price <= 0
FieldsInvalid(signal) ==
    \/ signal.action = ""
    \/ signal.symbol = ""
    \/ IsNone(signal.price)
    \/ RLe(signal.price, Zero)

\* A slip of the stop test: only an absent stop counts as invalid.
StopInvalidAbsentOnly(stop_loss_price) == IsNone(stop_loss_price)

\* stop_loss_price is None or stop_loss_price <= 0
StopInvalid(stop_loss_price) ==
    IsNone(stop_loss_price) \/ RLe(stop_loss_price, Zero)

\* The entry price is on the wrong side of the stop.
Unfavorable(action, price, stop_loss_price) ==
    \/ action = "BUY" /\ RLe(price, stop_loss_price)
    \/ action = "SHORT" /\ RGe(price, stop_loss_price)

Verdict(rm, valid, reason) == [rm |-> rm, valid |-> valid, reason |-> reason]

HeldQuantity(position_state) ==
    IF position_state.present THEN position_state.quantity ELSE 0

\* The part of validate_signal after the drawdown test and the SELL 'all' case:
\* quantity is None or a positive number here.
ValidateLimits(rm, signal, ps, position_state) ==
    LET action == signal.action
        quantity == signal.quantity
        price == signal.price
        stop == signal.stop_loss_price
        sized == action \in {"BUY", "SHORT"} /\ ~IsNone(quantity)
        proposed_risk_amount ==
            IF sized THEN GetRiskAmountForTrade(price, stop, quantity) ELSE Zero
        max_risk_allowed_per_trade == RMul(rm.current_capital, MaxRiskPerTradePct)
        current_risk_for_symbol == RiskOf(rm.positions_risk, signal.symbol)
        additional_risk ==
            IF action \in {"SELL", "COVER"} THEN RSub(Zero, current_risk_for_symbol)
            ELSE IF action \in {"BUY", "SHORT"}
                 THEN RSub(proposed_risk_amount, current_risk_for_symbol)
                 ELSE proposed_risk_amount
        potential_total_risk == RAdd(rm.current_total_risk_amount, additional_risk)
        max_total_portfolio_risk_abs == RMul(rm.current_capital, MaxTotalRiskPct)
        total_portfolio_value == Get(ps.total_value, Zero)
        available_cash == Get(ps.cash, Zero)
        order_value == IF IsNone(quantity) THEN Zero ELSE RMul(quantity, price)
        current_asset_value ==
            IF HeldQuantity(position_state) > 0
            THEN RMul(RInt(HeldQuantity(position_state)), price) ELSE Zero
    IN  IF sized /\ StopInvalid(stop)
        THEN Verdict(rm, FALSE, "missing valid stop_loss_price")
        ELSE IF sized /\ Unfavorable(action, price, stop)
        THEN Verdict(rm, FALSE, "entry price not favorable")
        ELSE IF RGt(proposed_risk_amount, Zero)
                /\ RGt(proposed_risk_amount, max_risk_allowed_per_trade)
        THEN Verdict(rm, FALSE, "exceeds max risk per trade")
        ELSE IF RGt(potential_total_risk, max_total_portfolio_risk_abs)
                /\ RGt(additional_risk, Zero)
        THEN Verdict(rm, FALSE, "exceeds max total portfolio risk")
        ELSE IF RLe(total_portfolio_value, Zero)
        THEN Verdict(rm, FALSE, "Portfolio total value is zero or invalid.")
        ELSE IF action = "BUY" /\ RGt(order_value, Zero)
                /\ RGt(order_value, RMul(total_portfolio_value, MaxOrderValuePct))
        THEN Verdict(rm, FALSE, "exceeds max order value limit")
        ELSE IF action = "BUY" /\ RGt(order_value, Zero)
                /\ RLt(RSub(available_cash, order_value),
                       RMul(total_portfolio_value, MinCashBalancePct))
        THEN Verdict(rm, FALSE, "Insufficient cash after trade for min balance")
        ELSE IF action = "BUY" /\ ~IsNone(quantity)
                /\ RGt(RAdd(current_asset_value, order_value),
                       RMul(total_portfolio_value, MaxPositionPctAsset))
        THEN Verdict(rm, FALSE, "would exceed max position limit")
        ELSE IF action = "SELL" /\ ~IsNone(quantity)
                /\ (~position_state.present
                    \/ RGt(quantity, RInt(position_state.quantity)))
        THEN Verdict(rm, FALSE, "Sell quantity exceeds holdings")
        ELSE Verdict(rm, TRUE, "Signal preliminarily valid")

\* SimpleRiskManager.validate_signal(signal, portfolio_state, position_state)
ValidateSignal(rm0, signal, ps, position_state) ==
    IF ps.empty THEN Verdict(rm0, FALSE, "Portfolio state missing.")
    ELSE IF signal.action = "" \/ signal.symbol = ""
            \/ IsNone(signal.price) \/ signal.price = Zero
    THEN Verdict(rm0, FALSE, "Signal missing action, symbol, or price.")
    ELSE IF RLe(signal.price, Zero)
    THEN Verdict(rm0, FALSE, "Invalid entry price")
    ELSE LET rm == UpdatePortfolioState(rm0, ps)
         IN IF DrawdownReached(rm)
            THEN Verdict(rm, FALSE, "Trading halted/restricted: Max drawdown limit reached")
            ELSE IF signal.action = "SELL" /\ signal.quantity = All
            THEN IF HeldQuantity(position_state) <= 0
                 THEN Verdict(rm, FALSE, "Cannot sell 'all': No existing position.")
                 ELSE Verdict(rm, TRUE, "Sell 'all' signal preliminarily valid.")
            ELSE IF signal.quantity = All
            THEN Verdict(rm, FALSE, "Invalid quantity format")
            ELSE IF ~IsNone(signal.quantity) /\ RLe(signal.quantity, Zero)
            THEN Verdict(rm, FALSE, "Quantity must be positive.")
            ELSE ValidateLimits(rm, signal, ps, position_state)

Sized(rm, quantity) == [rm |-> rm, quantity |-> quantity]

\* A slip of the budget: the per-trade share is left out.
RiskBudgetTotalOnly(rm) ==
    RMax(Zero, RSub(RMul(rm.current_capital, MaxTotalRiskPct),
                    rm.current_total_risk_amount))

\* The risk budget of one trade: the per-trade share of the capital, capped by
\* what is left of the total budget.
RiskBudget(rm) ==
    RMin(RMul(rm.current_capital, MaxRiskPerTradePct),
         RMax(Zero, RSub(RMul(rm.current_capital, MaxTotalRiskPct),
                         rm.current_total_risk_amount)))

\* A slip of the clips: the single-order value limit is left out.
ClipQuantityNoOrderLimit(rm, action, current_price, ps, quantity) ==
    LET max_qty_by_asset_limit ==
            RDiv(RMul(rm.current_capital, MaxPositionPctAsset), current_price)
        max_investment_from_cash ==
            RSub(Get(ps.cash, Zero), RMul(rm.current_capital, MinCashBalancePct))
    IN  IF action = "BUY" /\ RLe(max_investment_from_cash, Zero) THEN Zero
        ELSE LET by_cash == IF action = "BUY"
                            THEN RMin(quantity, RDiv(max_investment_from_cash, current_price))
                            ELSE quantity
             IN Trunc(RMin(by_cash, max_qty_by_asset_limit))

\* The clips of calculate_max_position_size after the sizing method: cash (BUY
\* only), asset share, single-order value; then whole units.
ClipQuantity(rm, action, current_price, ps, quantity) ==
    LET max_qty_by_asset_limit ==
            RDiv(RMul(rm.current_capital, MaxPositionPctAsset), current_price)
        max_investment_from_cash ==
            RSub(Get(ps.cash, Zero), RMul(rm.current_capital, MinCashBalancePct))
        max_qty_by_order_val_limit ==
            RDiv(RMul(rm.current_capital, MaxOrderValuePct), current_price)
    IN  IF action = "BUY" /\ RLe(max_investment_from_cash, Zero) THEN Zero
        ELSE LET by_cash == IF action = "BUY"
                            THEN RMin(quantity, RDiv(max_investment_from_cash, current_price))
                            ELSE quantity
             IN Trunc(RMin(RMin(by_cash, max_qty_by_asset_limit),
                           max_qty_by_order_val_limit))

\* SimpleRiskManager.calculate_max_position_size, data_provider None.
CalculateMaxPositionSize(rm0, method, current_price, ps, stop_loss_price, action) ==
    IF ps.empty \/ RLe(current_price, Zero) THEN Sized(rm0, Zero)
    ELSE LET rm == UpdatePortfolioState(rm0, ps)
             budget == RiskBudget(rm)
         IN IF DrawdownReached(rm) THEN Sized(rm, Zero)
            ELSE IF RLe(budget, Zero) THEN Sized(rm, Zero)
            ELSE IF method = "percent_risk"
            THEN IF StopInvalid(stop_loss_price)
                    \/ Unfavorable(action, current_price, stop_loss_price)
                 THEN Sized(rm, Zero)
                 ELSE Sized(rm, ClipQuantity(rm, action, current_price, ps,
                              RDiv(budget, RAbs(RSub(current_price, stop_loss_price)))))
            ELSE IF method = "fixed_amount_per_trade"
            THEN Sized(rm, ClipQuantity(rm, action, current_price, ps,
                                        RDiv(budget, current_price)))
            ELSE IF method = "fixed_quantity" THEN Sized(rm, Inf)
            ELSE Sized(rm, Zero)

\* The order adjust_order_size hands back: the signal's fields with the
\* quantity set, the reason ("" when absent) and the calculated risk (None
\* when absent).
Adjusted(rm, signal, quantity, reason, calculated_risk) ==
    [rm |-> rm, raised |-> FALSE,
     order |-> [action |-> signal.action, symbol |-> signal.symbol,
                price |-> signal.price, stop_loss_price |-> signal.stop_loss_price,
                quantity |-> quantity, reason |-> reason,
                calculated_risk |-> calculated_risk]]

\* float(int(inf)) raises OverflowError: no order is handed back.
AdjustRaised(rm, signal) ==
    [Adjusted(rm, signal, signal.quantity, "", None) EXCEPT !.raised = TRUE]

\* A slip of the closing size: the request is not clipped to the holding.
ClosingQuantityUnclipped(requested_quantity, current_holding_qty) ==
    IF requested_quantity = All THEN RInt(current_holding_qty)
    ELSE IF IsNone(requested_quantity) THEN Zero
    ELSE Trunc(RMax(Zero, requested_quantity))

\* The SELL / COVER size: the holding for 'all', else the request clipped to
\* the holding, never negative, whole units.
ClosingQuantity(requested_quantity, current_holding_qty) ==
    IF requested_quantity = All THEN RInt(current_holding_qty)
    ELSE IF IsNone(requested_quantity) THEN Zero
    ELSE Trunc(RMax(Zero, RMin(requested_quantity, RInt(current_holding_qty))))

\* The BUY / SHORT size when the risk manager sizes or clips the order.
OpeningQuantity(requested_quantity, max_total_allowable_qty, current_holding_qty) ==
    LET room == RSub(max_total_allowable_qty, RInt(Abs(current_holding_qty)))
    IN  IF requested_quantity = All THEN Zero
        ELSE IF IsNone(requested_quantity) THEN RMax(Zero, room)
        ELSE RMax(Zero, RMin(requested_quantity, room))

\* The tail of the BUY / SHORT branch of adjust_order_size: whole units, the
\* trade's risk, the ledger entry.
FinishOpening(rm, signal, quantity, reason) ==
    LET final_quantity == Trunc(quantity)
        stop == signal.stop_loss_price
        calculated_risk_for_trade ==
            IF RGt(final_quantity, Zero) /\ ~IsNone(stop) /\ stop # Zero
            THEN GetRiskAmountForTrade(signal.price, stop, final_quantity)
            ELSE Zero
    IN  IF RGt(final_quantity, Zero)
        THEN Adjusted(AddPositionRisk(rm, signal.symbol, calculated_risk_for_trade),
                      signal, final_quantity, reason, calculated_risk_for_trade)
        ELSE Adjusted(RemovePositionRisk(rm, signal.symbol), signal, final_quantity,
                      IF reason = "" THEN "Calculated quantity is zero." ELSE reason,
                      None)

\* SimpleRiskManager.adjust_order_size(original_order, portfolio_state, position_state)
AdjustOrderSize(rm0, method, signal, ps, position_state) ==
    LET rm == UpdatePortfolioState(rm0, ps)
        action == signal.action
        requested_quantity == signal.quantity
        current_holding_qty == HeldQuantity(position_state)
    IN  IF FieldsInvalid(signal)
        THEN Adjusted(rm, signal, Zero, "Invalid order fields (action, symbol, price).", None)
        ELSE IF action \in {"BUY", "SHORT"}
        THEN IF DrawdownReached(rm)
             THEN Adjusted(RemovePositionRisk(rm, signal.symbol), signal, Zero,
                           "Max drawdown limit reached.", None)
             ELSE IF IsNone(requested_quantity) \/ method # "fixed_quantity"
             THEN IF method = "percent_risk" /\ StopInvalid(signal.stop_loss_price)
                  THEN Adjusted(RemovePositionRisk(rm, signal.symbol), signal, Zero,
                                "'percent_risk' sizing requires valid 'stop_loss_price' in signal.",
                                None)
                  ELSE LET max_size == CalculateMaxPositionSize(rm, method, signal.price,
                                           ps, signal.stop_loss_price, action)
                       IN IF max_size.quantity = Inf
                          THEN IF requested_quantity = All
                               THEN FinishOpening(max_size.rm, signal, Zero, "")
                               ELSE AdjustRaised(max_size.rm, signal)
                          ELSE FinishOpening(max_size.rm, signal,
                                   OpeningQuantity(requested_quantity, max_size.quantity,
                                                   current_holding_qty), "")
             ELSE IF requested_quantity = All
             THEN FinishOpening(rm, signal, Zero, "Invalid fixed quantity.")
             ELSE LET v == ValidateSignal(rm, signal, ps, position_state)
                  IN IF v.valid THEN FinishOpening(v.rm, signal, requested_quantity, "")
                     ELSE FinishOpening(v.rm, signal, Zero, v.reason)
        ELSE IF action \in {"SELL", "COVER"}
        THEN LET final_quantity == ClosingQuantity(requested_quantity, current_holding_qty)
             IN IF RGe(final_quantity, RInt(current_holding_qty)) /\ current_holding_qty > 0
                THEN Adjusted(RemovePositionRisk(rm, signal.symbol), signal,
                              final_quantity, "Position closed.", None)
                ELSE IF RGt(final_quantity, Zero)
                THEN Adjusted(RemovePositionRisk(rm, signal.symbol), signal,
                              final_quantity, "Partial exit. Original risk removed.", None)
                ELSE Adjusted(rm, signal, final_quantity,
                              "Quantity is zero after adjustment.", None)
        ELSE Adjusted(rm, signal, requested_quantity,
                      IF requested_quantity = Zero
                      THEN "Quantity is zero after adjustment." ELSE "", None)

(***************************************************************************)
(* OrderHandler: the risk gate of process_signal                           *)
(***************************************************************************)
\* What the gate hands on: either a status returned to the caller with the
\* original signal, or ("passed") the order that goes on to the broker.
Gated(rm, status, message, order) ==
    [rm |-> rm, status |-> status, message |-> message, order |-> order]

\* validate_signal, then adjust_order_size, as process_signal calls them.  An
\* exception of adjust_order_size, or of the comparison quantity <= 0 on a
\* quantity that is not a number, leaves process_signal ("raised").
AfterAdjust(adjusted, signal) ==
    IF adjusted.raised \/ ~IsNumber(adjusted.order.quantity)
    THEN Gated(adjusted.rm, "raised", "", signal)
    ELSE IF RLe(adjusted.order.quantity, Zero)
    THEN Gated(adjusted.rm, "rejected_risk_adjusted_to_zero", adjusted.order.reason,
               signal)
    ELSE Gated(adjusted.rm, "passed", "", adjusted.order)

AfterValidate(v, method, signal, ps, position_state) ==
    IF ~v.valid
    THEN Gated(v.rm, "rejected_risk", v.reason, signal)
    ELSE AfterAdjust(AdjustOrderSize(v.rm, method, signal, ps, position_state),
                     signal)

RiskGate(rm0, method, signal, ps, position_state) ==
    IF signal.action = "HOLD"
    THEN Gated(rm0, "ignored", "Signal was HOLD or invalid.", signal)
    ELSE AfterValidate(ValidateSignal(rm0, signal, ps, position_state), method,
                       signal, ps, position_state)

\* Portfolio.get_summary() on positions whose market values are current: the
\* dict it returns, by its keys.
GetSummary(c, pos) ==
    [current_cash |-> c,
     positions_market_value |-> RSub(TotalValue(c, pos), c),
     total_portfolio_value |-> TotalValue(c, pos)]

\* dict.get(key): None for a key the dict does not have.
Lookup(dict, key) == IF key \in DOMAIN dict THEN dict[key] ELSE None

\* What the risk manager reads in a snapshot dict:
\* portfolio_state.get('total_value') and portfolio_state.get('cash').
AsPortfolioState(dict) ==
    [total_value |-> Lookup(dict, "total_value"),
     cash |-> Lookup(dict, "cash"), empty |-> FALSE]

\* Portfolio.get_position(symbol): the position when its quantity is > 0,
\* else None.
GetPosition(pos, symbol) ==
    IF symbol \in DOMAIN pos /\ pos[symbol].quantity > 0
    THEN PositionState(pos[symbol].quantity)
    ELSE NoPositionState

\* What process_signal returns and leaves behind: the broker's world, the
\* risk manager, the status ("raised" when an exception leaves the method),
\* the collaborator calls made, in order, and the order handed to the broker.
Processed(w, rm, status, calls, order) ==
    [w |-> w, rm |-> rm, status |-> status, calls |-> calls, order |-> order]

NoOrder == [symbol |-> "", action |-> "", quantity |-> 0, order_type |-> "",
            price |-> None, stop_price |-> None]

\* A slip of the default: an order without order_type goes out as LIMIT.
OrderTypeOrLimit(order_type) == IF order_type = "" THEN "LIMIT" ELSE order_type

\* order_to_place['order_type'], 'MARKET' when the signal has none.
OrderTypeOrMarket(order_type) == IF order_type = "" THEN "MARKET" ELSE order_type

\* OrderHandler.process_signal(signal) with a risk manager and a Portfolio.
\* input.shape tells what the caller handed over: "empty" (None or {}),
\* "action_none" (the key 'action' holds None), "price_text" (the price is
\* not a number) or "dict" (the fields of input.signal).  broker_raises: the
\* broker client's place_order raises.
GateCalls == <<"get_summary", "get_position", "validate_signal">>

\* order_to_place, built from the adjusted signal.
OrderToPlace(adjusted_signal, input) ==
    [symbol |-> adjusted_signal.symbol,
     action |-> adjusted_signal.action,
     quantity |-> IF IsNumber(adjusted_signal.quantity)
                  THEN adjusted_signal.quantity.n ELSE 0,
     order_type |-> OrderTypeOrMarket(input.order_type),
     price |-> adjusted_signal.price,
     stop_price |-> input.stop_price]

\* The order has reached the broker, which answered with `done`.
Answered(done, rm, calls, order) ==
    Processed(done.w, rm, done.result.status, calls, order)

\* The order is checked and handed to the broker client.
Submit(w, rm, calls, order, connected, order_id, quote, pquotes, cfg, broker_raises) ==
    IF order.order_type = "LIMIT" /\ (IsNone(order.price) \/ order.price = Zero)
    THEN Processed(w, rm, "failed", calls, order)
    ELSE IF broker_raises \/ ~connected
    THEN Processed(w, rm, "failed", calls \o <<"place_order">>, order)
    ELSE Answered(PlaceOrder(w, order, order_id, quote, pquotes, cfg), rm,
                  calls \o <<"place_order">>, order)

\* The risk gate has answered.
AfterGate(w, gate, connected, input, order_id, quote, pquotes, cfg, broker_raises) ==
    IF gate.status = "rejected_risk"
    THEN Processed(w, gate.rm, gate.status, GateCalls, NoOrder)
    ELSE IF gate.status # "passed"
    THEN Processed(w, gate.rm, gate.status, GateCalls \o <<"adjust_order_size">>,
                   NoOrder)
    ELSE Submit(w, gate.rm, GateCalls \o <<"adjust_order_size">>,
                OrderToPlace(gate.order, input), connected, order_id, quote, pquotes,
                cfg, broker_raises)

\* get_summary and get_position have been answered, the market values of the
\* Portfolio's positions refreshed by them.
AfterReads(w, rm0, method, connected, input, order_id, quote, pquotes, cfg, broker_raises) ==
    IF input.shape = "price_text"
    THEN Processed(w, rm0, "raised", GateCalls, NoOrder)
    ELSE AfterGate(w,
                   RiskGate(rm0, method, input.signal,
                            AsPortfolioState(GetSummary(w.pf.cash, w.pf.positions)),
                            GetPosition(w.pf.positions, input.signal.symbol)),
                   connected, input, order_id, quote, pquotes, cfg, broker_raises)

ProcessSignal(w, rm0, method, connected, input, order_id, quote, pquotes, cfg, broker_raises) ==
    IF input.shape = "empty" \/ (input.shape = "dict" /\ input.signal.action = "HOLD")
    THEN Processed(w, rm0, "ignored", <<>>, NoOrder)
    ELSE IF input.shape = "action_none"
    THEN Processed(w, rm0, "raised", <<>>, NoOrder)
    ELSE AfterReads([w EXCEPT !.pf.positions = UpdateMarketValues(w.pf.positions,
                                                                    pquotes)],
                    rm0, method, connected, input, order_id, quote, pquotes, cfg,
                    broker_raises)

(***************************************************************************)
(* Inputs                                                                  *)
(***************************************************************************)
\* The broker configurations tried: each slippage model, with and without a
\* commission.
BrokerConfigs ==
    {[commission_per_trade |-> Zero, slippage_model |-> "none"],
     [commission_per_trade |-> RInt(1), slippage_model |-> "fixed"],
     [commission_per_trade |-> Zero, slippage_model |-> "percentage"]}

\* What the data provider answers, symbol by symbol, during one call; an object
\* that has no provider gets no quote.
NoQuotes == [s \in Symbols |-> None]
ProviderQuotes(hasProvider) ==
    IF hasProvider THEN {[s \in Symbols |-> q] : q \in QuoteVals} ELSE {NoQuotes}
QuotesFor(hasProvider, quotes) == IF hasProvider THEN quotes ELSE NoQuotes

\* Fill events handed to Portfolio.update_fill directly: symbol A at the
\* <<quantity, price, commission>> of FillTerms, symbol B at one, and three
\* unusable events.
Fill(symbol, action, quantity, price, commission) ==
    [symbol |-> symbol, action |-> action, quantity |-> quantity, price |-> price,
     commission |-> commission, order_id |-> 0]

FillTerms ==
    {<<q, 2, 0>> : q \in Quantities} \cup {<<1, MaxPrice, 0>>, <<1, MaxPrice, 1>>}

FillEvents ==
    {Fill("A", a, t[1], RInt(t[2]), RInt(t[3])) :
        a \in {"BUY", "SELL"}, t \in FillTerms}
    \cup
    {Fill("B", a, 1, RInt(2), Zero) : a \in {"BUY", "SELL"}}
    \cup
    {Fill("A", "HOLD", 1, RInt(1), Zero),
     Fill("A", "BUY", 0, RInt(1), Zero),
     Fill("A", "SELL", 1, Zero, Zero)}

\* Orders handed to SimulatedBroker.place_order.
OrderInput(symbol, action, quantity, order_type, price, stop_price) ==
    [symbol |-> symbol, action |-> action, quantity |-> quantity,
     order_type |-> order_type, price |-> price, stop_price |-> stop_price]

\* Symbol A is traded with every order type; symbol B with one conditional order,
\* so that positions, pending orders and bars of two symbols coexist.
StopLimitPrices == {<<2, 2>>, <<MaxPrice, 2>>, <<2, MaxPrice>>}
WellFormedOrders ==
    {OrderInput("A", a, q, "MARKET", RInt(2), None) :
        a \in {"BUY", "SELL"}, q \in Quantities}
    \cup
    {OrderInput("A", a, 1, "LIMIT", RInt(2), None) : a \in {"BUY", "SELL"}}
    \cup
    {OrderInput("A", a, 1, "STOP", None, RInt(2)) : a \in {"BUY", "SELL"}}
    \cup
    {OrderInput("A", a, 1, "STOP_LIMIT", RInt(p[1]), RInt(p[2])) :
        a \in {"BUY", "SELL"}, p \in StopLimitPrices}
    \cup
    {OrderInput("B", "BUY", 1, "LIMIT", RInt(2), None)}

MalformedOrders ==
    {OrderInput("A", "BUY", 0, "MARKET", RInt(1), None),
     OrderInput("A", "BUY", 1, "MARKET", None, None),
     OrderInput("A", "BUY", 1, "LIMIT", None, None),
     OrderInput("A", "SELL", 1, "STOP", None, None),
     OrderInput("A", "HOLD", 1, "STOP_LIMIT", RInt(2), None)}

OrderInputs == WellFormedOrders \cup MalformedOrders

\* current_market_data: the bar close of each symbol that has had a bar.  Only
\* the bars of the symbols in syms are enumerated: process_pending_orders reads
\* the table at the symbols of the pending orders and nowhere else.
BarData(syms) == UNION {[S -> {RInt(p) : p \in Prices}] : S \in SUBSET syms}
PendingSymbols == {pending_orders[i].symbol : i \in DOMAIN pending_orders}

(***************************************************************************)
(* The state after construction                                            *)
(***************************************************************************)
NoPositions == [s \in {} |-> NewPosition]
NoOrders == [i \in {} |-> None]

\* Portfolio.__init__(initial_cash)
PortfolioInit(initial_cash) ==
    /\ cash = initial_cash
    /\ positions = NoPositions
    /\ trade_log = <<>>
    /\ portfolio_history = <<HistoryRecord(initial_cash, NoPositions)>>
    /\ pf_provider = FALSE

\* SimulatedBroker.__init__(config)
BrokerInit(initial_cash, commission, slippage) ==
    /\ is_connected = FALSE
    /\ cash_balance = initial_cash
    /\ broker_positions = [s \in {} |-> [quantity |-> 0, avg_price |-> Zero]]
    /\ orders = NoOrders
    /\ pending_orders = NoOrders
    /\ trade_history = <<>>
    /\ br_provider = FALSE
    /\ portfolio_ref = FALSE
    /\ commission_per_trade = commission
    /\ slippage_model = slippage
    /\ ids_issued = 0

\* SimpleRiskManager.__init__(config)
RiskManagerInit(method) ==
    /\ current_capital = RInt(InitialCapital)
    /\ high_water_mark = RInt(InitialCapital)
    /\ current_total_risk_amount = Zero
    /\ positions_risk = [s \in {} |-> Zero]
    /\ position_sizing_method = method

NoOp == [op |-> "init"]
Setup == [op |-> "setup"]

\* What a run of the engine leaves for comparison: the stream it went through,
\* what the provider and the strategy answered event by event, and the trade
\* log and history of its Portfolio, the history with its timestamps.
NoRun == [data_stream |-> <<>>, script |-> <<>>, trade_log |-> <<>>,
          portfolio_history |-> <<>>, stamps |-> <<>>]

\* BacktestingEngine.__init__: no data stream, no run yet.  stamps are the
\* 'timestamp' fields of the records of portfolio_history, clock the wall
\* clock as datetime.now() last read it, fresh whether the components were
\* constructed anew after the first run, first what the first run left.
IdleEngine ==
    [run |-> 0, pc |-> "idle", data_stream |-> <<>>, next |-> 0,
     current_market_data |-> [s \in {} |-> Zero], quotes |-> NoQuotes, placed |-> 0,
     script |-> <<>>, stamps |-> <<1>>, clock |-> 1, returned |-> "none",
     fresh |-> FALSE, first |-> NoRun]

Init ==
    /\ PortfolioInit(RInt(InitialCash))
    /\ \E c \in BrokerConfigs :
          BrokerInit(RInt(InitialCash), c.commission_per_trade, c.slippage_model)
    /\ RiskManagerInit("percent_risk")
    /\ lastOp = NoOp
    /\ engine = IdleEngine

\* A Portfolio on its own; the broker beside it has the default configuration
\* and is never called.
InitPortfolio ==
    /\ PortfolioInit(RInt(InitialCash))
    /\ BrokerInit(RInt(InitialCash), Zero, "none")
    /\ RiskManagerInit("percent_risk")
    /\ lastOp = NoOp
    /\ engine = IdleEngine

Config == [slippage_model |-> slippage_model,
           commission_per_trade |-> commission_per_trade,
           portfolio_ref |-> portfolio_ref]

\* A call made on one of the objects directly: the engine stays where it is.
Called(op) ==
    /\ lastOp' = op
    /\ UNCHANGED engine

SetLedger(pf) ==
    /\ cash' = pf.cash
    /\ positions' = pf.positions
    /\ trade_log' = pf.trade_log
    /\ portfolio_history' = pf.portfolio_history

SetWorld(w) ==
    /\ cash_balance' = w.cash_balance
    /\ broker_positions' = w.positions
    /\ orders' = w.orders
    /\ pending_orders' = w.pending_orders
    /\ trade_history' = w.trade_history
    /\ SetLedger(w.pf)

(***************************************************************************)
(* Portfolio operations                                                    *)
(***************************************************************************)
\* portfolio.update_fill(fill)
DoUpdateFill ==
    /\ Len(trade_log) < MaxFills
    /\ \E fill \in FillEvents :
       \E quotes \in ProviderQuotes(pf_provider /\ FillAccepted(positions, fill)) :
          /\ SetLedger(UpdateFill(Ledger, fill, quotes))
          /\ Called([op |-> "update_fill",
                     outcome |-> IF FillAccepted(positions, fill) THEN "accepted"
                                 ELSE IF ValidFill(fill) /\ fill.action = "SELL"
                                 THEN "rejected_sell" ELSE "ignored"])
    /\ UNCHANGED <<pf_provider, brokerVars, configVars,
                   riskVars>>

\* portfolio._update_market_values(): the engine's mark-to-market
DoMarkToMarket ==
    /\ \E quotes \in ProviderQuotes(pf_provider) :
          positions' = UpdateMarketValues(positions, quotes)
    /\ Called([op |-> "_update_market_values"])
    /\ UNCHANGED <<cash, trade_log, portfolio_history, pf_provider, brokerVars,
                   configVars, riskVars>>

\* portfolio.get_total_value()
DoGetTotalValue ==
    /\ \E quotes \in ProviderQuotes(pf_provider) :
          LET pos == UpdateMarketValues(positions, quotes)
          IN /\ positions' = pos
             /\ Called([op |-> "get_total_value", result |-> TotalValue(cash, pos)])
    /\ UNCHANGED <<cash, trade_log, portfolio_history, pf_provider, brokerVars,
                   configVars, riskVars>>

\* portfolio._record_portfolio_value(): the engine's end-of-event snapshot
DoRecordPortfolioValue ==
    /\ Len(portfolio_history) < MaxHistory
    /\ \E quotes \in ProviderQuotes(pf_provider) :
          LET pos == UpdateMarketValues(positions, quotes)
          IN /\ positions' = pos
             /\ portfolio_history' = Append(portfolio_history, HistoryRecord(cash, pos))
    /\ Called([op |-> "_record_portfolio_value"])
    /\ UNCHANGED <<cash, trade_log, pf_provider, brokerVars, configVars,
                   riskVars>>

\* portfolio.set_market_data_provider(provider)
DoSetPortfolioProvider ==
    /\ pf_provider' = TRUE
    /\ \E quotes \in ProviderQuotes(TRUE) :
          positions' = UpdateMarketValues(positions, quotes)
    /\ Called(Setup)
    /\ UNCHANGED <<cash, trade_log, portfolio_history, brokerVars, configVars,
                   riskVars>>

(***************************************************************************)
(* Broker operations                                                       *)
(***************************************************************************)
\* broker.connect()
DoConnect ==
    /\ is_connected' = TRUE
    /\ Called(Setup)
    /\ UNCHANGED <<pfVars, bookVars, br_provider, portfolio_ref, ids_issued, configVars,
                   riskVars>>

\* broker.disconnect()
DoDisconnect ==
    /\ is_connected' = FALSE
    /\ Called(Setup)
    /\ UNCHANGED <<pfVars, bookVars, br_provider, portfolio_ref, ids_issued, configVars,
                   riskVars>>

\* The engine's wiring: portfolio.set_market_data_provider(p) and
\* broker.set_market_data_provider(p) with its data provider, then
\* broker.set_portfolio_reference(portfolio).
DoEngineWiring ==
    /\ br_provider' = TRUE
    /\ pf_provider' = TRUE
    /\ portfolio_ref' = TRUE
    /\ \E quotes \in ProviderQuotes(TRUE) :
          positions' = UpdateMarketValues(positions, quotes)
    /\ Called(Setup)
    /\ UNCHANGED <<cash, trade_log, portfolio_history, bookVars, is_connected,
                   ids_issued, configVars,
                   riskVars>>

\* broker.place_order(order)
DoPlaceOrder ==
    /\ IF ~is_connected
       THEN /\ Called([op |-> "place_order",
                       result |-> [status |-> "failed",
                                   message |-> "Broker not connected"]])
            /\ UNCHANGED <<ledgerVars, bookVars, ids_issued>>
       ELSE /\ ids_issued < MaxOrders
            /\ ids_issued' = ids_issued + 1
            /\ \E order \in OrderInputs :
               \E quotes \in ProviderQuotes((br_provider \/ pf_provider)
                                            /\ order.order_type = "MARKET") :
                  LET quote == QuotesFor(br_provider, quotes)[order.symbol]
                      done == PlaceOrder(World, order, ids_issued + 1, quote,
                                         QuotesFor(pf_provider, quotes), Config)
                  IN /\ SetWorld(done.w)
                     /\ Called([op |-> "place_order",
                                quote |-> IF done.result.status = "rejected"
                                          THEN quote ELSE None,
                                result |-> done.result])
    /\ UNCHANGED <<pf_provider, is_connected, br_provider, portfolio_ref, configVars,
                   riskVars>>

\* broker.process_pending_orders(current_market_data)
DoProcessPendingOrders ==
    /\ \E data \in BarData(IF is_connected THEN PendingSymbols ELSE {}),
          quotes \in ProviderQuotes((br_provider \/ pf_provider) /\ is_connected
                                    /\ PendingSymbols # {}) :
          /\ SetWorld(ProcessPendingOrders(World, is_connected, data,
                                           QuotesFor(br_provider, quotes),
                                           QuotesFor(pf_provider, quotes), Config))
          /\ Called([op |-> "process_pending_orders",
                     evaluated |-> [i \in IF is_connected
                                          THEN {j \in DOMAIN pending_orders :
                                                  pending_orders[j].symbol \in DOMAIN data}
                                          ELSE {} |->
                                      data[pending_orders[i].symbol]]])
    /\ UNCHANGED <<pf_provider, is_connected, br_provider, portfolio_ref, ids_issued,
                   configVars, riskVars>>

\* broker.cancel_order(order_id)
DoCancelOrder ==
    /\ \E order_id \in 1..MaxOrders :
          LET done == CancelOrder(World, order_id)
          IN /\ SetWorld(done.w)
             /\ Called([op |-> "cancel_order", order_id |-> order_id,
                        result |-> done.result])
    /\ UNCHANGED <<pf_provider, is_connected, br_provider, portfolio_ref, ids_issued,
                   configVars, riskVars>>

(***************************************************************************)
(* Specifications                                                          *)
(***************************************************************************)
\* The broker and the Portfolio it is linked to.
Next ==
    \/ DoConnect
    \/ DoDisconnect
    \/ DoEngineWiring
    \/ DoPlaceOrder
    \/ DoProcessPendingOrders
    \/ DoCancelOrder

Spec == Init /\ [][Next]_vars

\* The Portfolio on its own, called directly.
NextPortfolio ==
    \/ DoUpdateFill
    \/ DoMarkToMarket
    \/ DoGetTotalValue
    \/ DoRecordPortfolioValue
    \/ DoSetPortfolioProvider

SpecPortfolio == InitPortfolio /\ [][NextPortfolio]_vars

\* SimulatedBroker.__init__(config) followed by set_portfolio_reference(portfolio),
\* before any order is placed.
BrokerLinked(initial_cash, commission, slippage) ==
    /\ is_connected = FALSE
    /\ cash_balance = initial_cash
    /\ broker_positions = [s \in {} |-> [quantity |-> 0, avg_price |-> Zero]]
    /\ orders = NoOrders
    /\ pending_orders = NoOrders
    /\ trade_history = <<>>
    /\ br_provider = FALSE
    /\ portfolio_ref = TRUE
    /\ commission_per_trade = commission
    /\ slippage_model = slippage
    /\ ids_issued = 0

InitLinked ==
    /\ PortfolioInit(RInt(InitialCash))
    /\ \E c \in BrokerConfigs :
          BrokerLinked(RInt(InitialCash), c.commission_per_trade, c.slippage_model)
    /\ RiskManagerInit("percent_risk")
    /\ lastOp = NoOp
    /\ engine = IdleEngine

\* The broker linked to the Portfolio from the start, both with the same cash.
SpecLinked == InitLinked /\ [][Next]_vars

(***************************************************************************)
(* Risk manager and order handler operations                               *)
(***************************************************************************)
Signal(action, symbol, quantity, price, stop_loss_price) ==
    [action |-> action, symbol |-> symbol, quantity |-> quantity,
     price |-> price, stop_loss_price |-> stop_loss_price]

\* Capital snapshots: the starting capital, the same with little cash, a 10%
\* fall from it, a new peak with less cash than the minimum balance, a dict
\* without the keys total_value and cash, and the empty dict.
Snapshots ==
    {PortfolioState(RInt(InitialCapital), RInt(InitialCapital)),
     PortfolioState(RInt(InitialCapital), RInt(10000)),
     PortfolioState(RInt(90000), RInt(90000)),
     PortfolioState(RInt(200000), RInt(5000)),
     PortfolioState(None, None),
     EmptyState}

ScenarioA == Signal("BUY", "A", RInt(100), RInt(50), RInt(45))

OpeningSignals ==
    {ScenarioA}
    \cup
    {Signal("BUY", s, None, RInt(50), RInt(40)) : s \in {"A", "B", "C"}}
    \cup
    {Signal("BUY", "A", q, RInt(50), None) : q \in {None, RInt(100)}}
    \cup
    {Signal("BUY", "A", None, RInt(50), stop) : stop \in {Zero, RInt(60)}}
    \cup
    {Signal("SHORT", "A", None, RInt(10), RInt(35))}

ClosingSignals ==
    {Signal(a, "A", q, RInt(50), None) :
        a \in {"SELL", "COVER"}, q \in {All, RInt(150), RInt(50)}}

OtherSignals ==
    {Signal("HOLD", "A", None, RInt(50), None),
     Signal("", "A", RInt(100), RInt(50), RInt(45)),
     Signal("BUY", "A", RInt(100), None, RInt(45))}

PositionStates == {NoPositionState, PositionState(0), PositionState(100)}

\* The calls made: a signal and the position held of its symbol.  SELL 'all'
\* is taken with every holding, the other closing signals and one sizing BUY
\* with a holding of 100, a numeric SELL with no position too.
Calls ==
    {<<signal, NoPositionState>> : signal \in OpeningSignals \cup OtherSignals}
    \cup
    {<<Signal("BUY", "A", None, RInt(50), RInt(40)), PositionState(100)>>}
    \cup
    {<<signal, position_state>> \in ClosingSignals \X PositionStates :
        \/ position_state = PositionState(100)
        \/ signal.action = "SELL" /\ signal.quantity = All
        \/ signal.action = "SELL" /\ signal.quantity = RInt(150)
           /\ position_state = NoPositionState}

\* validate_signal changes nothing but the capital view: it is called with the
\* signals that take its different exits.
ValidateCalls ==
    {call \in Calls :
        \/ call[1] \in OtherSignals \cup {ScenarioA}
        \/ call[1].action = "BUY" /\ call[1].symbol = "A" /\ IsNone(call[1].stop_loss_price)
        \/ call[1].action = "SELL" /\ call[1].quantity # RInt(50)}

\* adjust_order_size is called with the signals that size or close.
AdjustCalls == {call \in Calls : call[1] \notin OtherSignals}

\* calculate_max_position_size reads the action, the price and the stop.
SizingInput(action, current_price, stop_loss_price) ==
    [action |-> action, price |-> current_price, stop_loss_price |-> stop_loss_price]
SizingInputs ==
    {SizingInput(signal.action, signal.price, signal.stop_loss_price) :
        signal \in OpeningSignals}

SetRisk(rm) ==
    /\ current_capital' = rm.current_capital
    /\ high_water_mark' = rm.high_water_mark
    /\ current_total_risk_amount' = rm.current_total_risk_amount
    /\ positions_risk' = rm.positions_risk

InitRisk ==
    /\ PortfolioInit(RInt(InitialCash))
    /\ BrokerInit(RInt(InitialCash), Zero, "none")
    /\ \E method \in SizingMethods : RiskManagerInit(method)
    /\ lastOp = NoOp
    /\ engine = IdleEngine

\* risk_manager.update_portfolio_state(portfolio_state)
DoUpdatePortfolioState ==
    /\ \E ps \in Snapshots :
       \E rm \in {UpdatePortfolioState(RiskState, ps)} :
          /\ SetRisk(rm)
          /\ Called([op |-> "update_portfolio_state"])
    /\ UNCHANGED <<pfVars, brokerVars, configVars, position_sizing_method>>

\* risk_manager.validate_signal(signal, portfolio_state, position_state)
DoValidateSignal ==
    /\ \E call \in ValidateCalls, ps \in Snapshots :
          LET signal == call[1]
              position_state == call[2]
          IN \E v \in {ValidateSignal(RiskState, signal, ps, position_state)} :
             /\ SetRisk(v.rm)
             /\ Called([op |-> "validate_signal", valid |-> v.valid])
    /\ UNCHANGED <<pfVars, brokerVars, configVars, position_sizing_method>>

\* risk_manager.calculate_max_position_size(symbol, current_price,
\* portfolio_state, stop_loss_price, action)
DoCalculateMaxPositionSize ==
    /\ \E signal \in SizingInputs, ps \in Snapshots :
          \E r \in {CalculateMaxPositionSize(RiskState, position_sizing_method,
                       signal.price, ps, signal.stop_loss_price, signal.action)} :
             /\ SetRisk(r.rm)
             /\ Called([op |-> "calculate_max_position_size",
                        action |-> signal.action,
                        sized |-> r.quantity # Zero])
    /\ UNCHANGED <<pfVars, brokerVars, configVars, position_sizing_method>>

\* risk_manager.adjust_order_size(original_order, portfolio_state, position_state)
DoAdjustOrderSize ==
    /\ \E call \in AdjustCalls, ps \in Snapshots :
          LET signal == call[1]
              position_state == call[2]
          IN \E r \in {AdjustOrderSize(RiskState, position_sizing_method, signal, ps,
                                       position_state)} :
             /\ SetRisk(r.rm)
             /\ Called([op |-> "adjust_order_size", action |-> signal.action,
                        raised |-> r.raised, sized |-> r.order.quantity # Zero,
                        reason |-> r.order.reason,
                        released |-> IF signal.action \in {"SELL", "COVER"}
                                     THEN RSub(current_total_risk_amount,
                                               r.rm.current_total_risk_amount)
                                     ELSE Zero])
    /\ UNCHANGED <<pfVars, brokerVars, configVars, position_sizing_method>>

\* The risk manager called directly.
NextRisk ==
    \/ DoUpdatePortfolioState
    \/ DoValidateSignal
    \/ DoCalculateMaxPositionSize
    \/ DoAdjustOrderSize

SpecRisk == InitRisk /\ [][NextRisk]_vars

\* What a strategy hands to OrderHandler.process_signal.
HandlerInput(shape, signal, order_type, stop_price) ==
    [shape |-> shape, signal |-> signal, order_type |-> order_type,
     stop_price |-> stop_price]

HandlerInputs ==
    {HandlerInput("dict", Signal("SELL", "A", All, RInt(2), None), t, None) :
        t \in {"", "LIMIT"}}
    \cup
    {HandlerInput("dict", Signal("SELL", "A", RInt(1), RInt(2), None), "", None),
     HandlerInput("dict", Signal("BUY", "A", None, RInt(2), RInt(1)), "", None),
     HandlerInput("dict", Signal("BUY", "A", RInt(1), RInt(2), RInt(1)), "MARKET", None),
     HandlerInput("dict", Signal("HOLD", "A", None, RInt(2), None), "", None),
     HandlerInput("dict", Signal("", "A", RInt(1), RInt(2), RInt(1)), "", None),
     HandlerInput("empty", Signal("", "", None, None, None), "", None),
     HandlerInput("action_none", Signal("", "A", RInt(1), RInt(2), RInt(1)), "", None),
     HandlerInput("price_text", Signal("BUY", "A", RInt(1), None, RInt(1)), "", None)}

\* order_handler.process_signal(signal)
DoProcessSignal ==
    /\ ids_issued < MaxOrders
    /\ \E input \in HandlerInputs, broker_raises \in BOOLEAN,
          quotes \in ProviderQuotes(br_provider \/ pf_provider) :
          \E r \in {ProcessSignal(World, RiskState, position_sizing_method,
                                  is_connected, input, ids_issued + 1,
                                  QuotesFor(br_provider, quotes)["A"],
                                  QuotesFor(pf_provider, quotes), Config,
                                  broker_raises)} :
             /\ SetWorld(r.w)
             /\ SetRisk(r.rm)
             /\ ids_issued' = IF r.calls # <<>> /\ r.calls[Len(r.calls)] = "place_order"
                                 /\ is_connected /\ ~broker_raises
                              THEN ids_issued + 1 ELSE ids_issued
             /\ Called([op |-> "process_signal", shape |-> input.shape,
                        status |-> r.status, calls |-> r.calls, order |-> r.order])
    /\ UNCHANGED <<pf_provider, is_connected, br_provider, portfolio_ref, configVars,
                   position_sizing_method>>

\* The Portfolio, the broker linked to it and the risk manager, all starting
\* from the same capital, as OrderHandler finds them.
InitHandler ==
    /\ PortfolioInit(RInt(InitialCapital))
    /\ BrokerLinked(RInt(InitialCapital), Zero, "none")
    /\ RiskManagerInit("percent_risk")
    /\ lastOp = NoOp
    /\ engine = IdleEngine

\* OrderHandler between a strategy, which also places orders with the broker
\* itself, and the broker; DoConnect is the connect of OrderHandler.__init__.
NextHandler ==
    \/ DoConnect
    \/ DoEngineWiring
    \/ DoPlaceOrder
    \/ DoProcessSignal
    \/ DoProcessPendingOrders

SpecHandler == InitHandler /\ [][NextHandler]_vars

(***************************************************************************)
(* BacktestingEngine                                                       *)
(***************************************************************************)
MaxRuns == 2
EndDate == 2
MaxClock == 2

\* run_backtest(symbols): the symbols asked for, in this order.
RunSymbols == <<"A", "B">>

\* A row of get_historical_data, as the loop reads it.
Bar(timestamp, symbol, close) ==
    [timestamp |-> timestamp, symbol |-> symbol, close |-> RInt(close)]

\* What get_historical_data does for one symbol: it raises, or it returns
\* rows (none for an empty frame), in whatever order the provider keeps them.
Answer(raised, bars) == [raised |-> raised, bars |-> bars]

\* The data a run is given: nothing at all, a symbol failing beside one with
\* data, rows newest first, and rows reaching past the end date.
Feeds ==
    {[A |-> Answer(TRUE, <<>>), B |-> Answer(FALSE, <<>>)],
     [A |-> Answer(FALSE, <<>>), B |-> Answer(FALSE, <<>>)],
     [A |-> Answer(TRUE, <<>>), B |-> Answer(FALSE, <<Bar(1, "B", 3)>>)],
     [A |-> Answer(FALSE, <<Bar(2, "A", 2), Bar(1, "A", 3)>>),
      B |-> Answer(FALSE, <<>>)],
     [A |-> Answer(FALSE, <<Bar(2, "A", 2), Bar(EndDate + 1, "A", 3)>>),
      B |-> Answer(FALSE, <<Bar(1, "B", 3)>>)]}

\* all_data: the rows of the symbols that answered, symbol after symbol.
RECURSIVE AllData(_, _)
AllData(feed, symbols) ==
    IF symbols = <<>> THEN <<>>
    ELSE (IF feed[Head(symbols)].raised THEN <<>> ELSE feed[Head(symbols)].bars)
         \o AllData(feed, Tail(symbols))

\* A slip of _prepare_data: the rows are left as they were fetched.
Unsorted(all_data) == all_data

\* sorted(): a row goes behind the rows that are not later than it.
InsertByTimestamp(row, rows) ==
    LET k == Cardinality({i \in 1..Len(rows) : rows[i].timestamp <= row.timestamp})
    IN SubSeq(rows, 1, k) \o <<row>> \o SubSeq(rows, k + 1, Len(rows))

\* sorted(all_data, key=lambda x: x['timestamp']), which keeps rows of equal
\* timestamp in the order they came.
RECURSIVE SortByTimestamp(_)
SortByTimestamp(all_data) ==
    IF all_data = <<>> THEN <<>>
    ELSE InsertByTimestamp(all_data[Len(all_data)],
                           SortByTimestamp(SubSeq(all_data, 1, Len(all_data) - 1)))

\* _prepare_data(symbols): the stream, and whether ValueError is raised.
PrepareData(feed, symbols) ==
    [data_stream |-> SortByTimestamp(AllData(feed, symbols)),
     raised |-> SortByTimestamp(AllData(feed, symbols)) = <<>>]

\* Portfolio(initial_cash=self.initial_capital, ...): the ledger of a new
\* Portfolio.
FreshPortfolio(initial_capital) ==
    [cash |-> initial_capital, positions |-> NoPositions, trade_log |-> <<>>,
     portfolio_history |-> <<HistoryRecord(initial_capital, NoPositions)>>]

\* What datetime.now() can read when the wall clock last read `clock`.
Readings(clock) == clock..MaxClock

\* The readings a step takes: one when it appends to portfolio_history.
ReadingsFor(history) ==
    IF Len(history) > Len(engine.stamps) THEN Readings(engine.clock)
    ELSE {engine.clock}

\* The timestamps of the records, those appended since stamped with `now`.
Stamped(stamps, history, now) ==
    stamps \o [i \in 1..(Len(history) - Len(stamps)) |-> now]

\* The orders the strategy places with the broker from on_data.
StrategyOrders ==
    {OrderInput("A", "BUY", 1, "MARKET", RInt(2), None),
     OrderInput("A", "BUY", 1, "LIMIT", RInt(2), None)}

\* What on_data did at one event: the provider's quotes and the order placed.
Scripted(quotes, order) == [quotes |-> quotes, order |-> order]

\* The components as BacktestingEngine.__init__ leaves them: the broker,
\* constructed with its own initial_cash and connected by
\* OrderHandler.__init__, the provider handed to the Portfolio and to the
\* broker.
EngineComponents(broker_cash) ==
    /\ cash = RInt(InitialCash)
    /\ positions = NoPositions
    /\ trade_log = <<>>
    /\ portfolio_history = <<HistoryRecord(RInt(InitialCash), NoPositions)>>
    /\ pf_provider = TRUE
    /\ is_connected = TRUE
    /\ cash_balance = broker_cash
    /\ broker_positions = [s \in {} |-> [quantity |-> 0, avg_price |-> Zero]]
    /\ orders = NoOrders
    /\ pending_orders = NoOrders
    /\ trade_history = <<>>
    /\ br_provider = TRUE
    /\ portfolio_ref = FALSE
    /\ commission_per_trade = Zero
    /\ slippage_model = "none"
    /\ ids_issued = 0
    /\ RiskManagerInit("percent_risk")
    /\ lastOp = NoOp
    /\ engine = IdleEngine

\* The broker is configured with the engine's initial capital.
InitEngine == EngineComponents(RInt(InitialCash))

\* The broker's initial_cash is a setting of its own config: the engine's
\* initial capital, or twice as much.
InitEngineFunded ==
    \E broker_cash \in {RInt(InitialCash), RInt(2 * InitialCash)} :
        EngineComponents(broker_cash)

\* run_backtest(symbols) up to its loop: _prepare_data, which may raise, then
\* the new Portfolio, linked to the strategy and the order handler.
DoRunBacktest ==
    /\ engine.pc = "idle"
    /\ engine.run < MaxRuns
    /\ \E feed \in Feeds :
       \E prep \in {PrepareData(feed, RunSymbols)} :
          IF prep.raised
          THEN /\ engine' = [engine EXCEPT !.run = @ + 1, !.data_stream = <<>>,
                                           !.returned = "raised"]
               /\ UNCHANGED pfVars
          ELSE /\ \E now \in Readings(engine.clock) :
                     engine' = [engine EXCEPT
                                   !.run = @ + 1, !.pc = "event",
                                   !.data_stream = prep.data_stream, !.next = 1,
                                   !.current_market_data = [s \in {} |-> Zero],
                                   !.placed = 0, !.script = <<>>,
                                   !.stamps = <<now>>, !.clock = now,
                                   !.returned = "none"]
               /\ SetLedger(FreshPortfolio(RInt(InitialCash)))
               /\ pf_provider' = TRUE
    /\ lastOp' = [op |-> "run_backtest"]
    /\ UNCHANGED <<brokerVars, configVars, riskVars>>

\* The loop takes the next event, which is not past the end date: the snapshot
\* table gets its bar, the Portfolio is marked to market and the broker is
\* handed the Portfolio.
DoNextEvent ==
    /\ engine.pc = "event"
    /\ engine.next <= Len(engine.data_stream)
    /\ engine.data_stream[engine.next].timestamp <= EndDate
    /\ \E quotes \in ProviderQuotes(TRUE) :
          LET data_event == engine.data_stream[engine.next]
          IN /\ engine' = [engine EXCEPT
                              !.pc = "on_data",
                              !.current_market_data =
                                  [s \in DOMAIN @ \cup {data_event.symbol} |->
                                      IF s = data_event.symbol THEN data_event.close
                                      ELSE @[s]],
                              !.quotes = quotes, !.placed = 0]
             /\ positions' = UpdateMarketValues(positions, QuotesFor(pf_provider, quotes))
    /\ portfolio_ref' = TRUE
    /\ lastOp' = [op |-> "next_event"]
    /\ UNCHANGED <<cash, trade_log, portfolio_history, pf_provider, bookVars,
                   is_connected, br_provider, ids_issued, configVars, riskVars>>

\* strategy.on_data(data_event): the strategy places no order, or one with the
\* broker.
DoOnData ==
    /\ engine.pc = "on_data"
    /\ \/ /\ engine' = [engine EXCEPT
                           !.pc = "pending",
                           !.script = Append(@, Scripted(engine.quotes, NoOrder))]
          /\ UNCHANGED <<ledgerVars, bookVars, ids_issued>>
       \/ /\ is_connected
          /\ ids_issued < MaxOrders
          /\ ids_issued' = ids_issued + 1
          /\ \E order \in StrategyOrders :
             \E done \in {PlaceOrder(World, order, ids_issued + 1,
                                     QuotesFor(br_provider, engine.quotes)[order.symbol],
                                     QuotesFor(pf_provider, engine.quotes), Config)} :
             \E now \in ReadingsFor(done.w.pf.portfolio_history) :
                /\ SetWorld(done.w)
                /\ engine' = [engine EXCEPT
                                 !.pc = "pending", !.placed = ids_issued + 1,
                                 !.script = Append(@, Scripted(engine.quotes, order)),
                                 !.stamps = Stamped(@, done.w.pf.portfolio_history, now),
                                 !.clock = now]
    /\ lastOp' = [op |-> "on_data"]
    /\ UNCHANGED <<pf_provider, is_connected, br_provider, portfolio_ref, configVars,
                   riskVars>>

\* broker.process_pending_orders(current_market_data) of the event.
DoEvaluatePending ==
    /\ engine.pc = "pending"
    /\ \E w \in {ProcessPendingOrders(World, is_connected, engine.current_market_data,
                                      QuotesFor(br_provider, engine.quotes),
                                      QuotesFor(pf_provider, engine.quotes), Config)} :
       \E now \in ReadingsFor(w.pf.portfolio_history) :
          /\ SetWorld(w)
          /\ engine' = [engine EXCEPT
                           !.pc = "record",
                           !.stamps = Stamped(@, w.pf.portfolio_history, now),
                           !.clock = now]
    /\ lastOp' = [op |-> "process_pending_orders"]
    /\ UNCHANGED <<pf_provider, is_connected, br_provider, portfolio_ref, ids_issued,
                   configVars, riskVars>>

\* portfolio._record_portfolio_value() at the end of the event; the loop goes
\* on to the next event.
DoRecordEvent ==
    /\ engine.pc = "record"
    /\ \E now \in Readings(engine.clock) :
       \E pos \in {UpdateMarketValues(positions, QuotesFor(pf_provider, engine.quotes))} :
          /\ positions' = pos
          /\ portfolio_history' = Append(portfolio_history, HistoryRecord(cash, pos))
          /\ engine' = [engine EXCEPT !.pc = "event", !.next = @ + 1,
                                      !.stamps = Append(@, now), !.clock = now]
    /\ lastOp' = [op |-> "_record_portfolio_value"]
    /\ UNCHANGED <<cash, trade_log, pf_provider, brokerVars, configVars, riskVars>>

\* What the run leaves behind.
RunOutput ==
    [data_stream |-> engine.data_stream, script |-> engine.script,
     trade_log |-> trade_log, portfolio_history |-> portfolio_history,
     stamps |-> engine.stamps]

\* The loop ends, the stream exhausted or its next event past the end date,
\* and _calculate_performance_metrics returns.
DoFinish ==
    /\ engine.pc = "event"
    /\ IF engine.next > Len(engine.data_stream) THEN TRUE
       ELSE engine.data_stream[engine.next].timestamp > EndDate
    /\ engine' = [engine EXCEPT
                     !.pc = "idle",
                     !.returned = IF portfolio_history = <<>> THEN "error" ELSE "metrics",
                     !.first = IF engine.run = 1 THEN RunOutput ELSE @]
    /\ lastOp' = [op |-> "finish"]
    /\ UNCHANGED <<pfVars, brokerVars, configVars, riskVars>>

\* After the first run every component is constructed anew with the same
\* configuration; uuid4 does not start over, the wall clock does not go back.
DoRebuild ==
    /\ engine.pc = "idle"
    /\ engine.run = 1
    /\ engine.returned = "metrics"
    /\ ~engine.fresh
    /\ \E now \in Readings(engine.clock) :
          engine' = [IdleEngine EXCEPT !.run = 1, !.fresh = TRUE,
                                       !.first = engine.first,
                                       !.stamps = <<now>>, !.clock = now]
    /\ SetLedger(FreshPortfolio(RInt(InitialCash)))
    /\ pf_provider' = TRUE
    /\ is_connected' = TRUE
    /\ cash_balance' = RInt(InitialCash)
    /\ broker_positions' = [s \in {} |-> [quantity |-> 0, avg_price |-> Zero]]
    /\ orders' = NoOrders
    /\ pending_orders' = NoOrders
    /\ trade_history' = <<>>
    /\ br_provider' = TRUE
    /\ portfolio_ref' = FALSE
    /\ current_capital' = RInt(InitialCapital)
    /\ high_water_mark' = RInt(InitialCapital)
    /\ current_total_risk_amount' = Zero
    /\ positions_risk' = [s \in {} |-> Zero]
    /\ lastOp' = [op |-> "rebuild"]
    /\ UNCHANGED <<ids_issued, configVars, position_sizing_method>>

NextEngine ==
    \/ DoRunBacktest
    \/ DoNextEvent
    \/ DoOnData
    \/ DoEvaluatePending
    \/ DoRecordEvent
    \/ DoFinish
    \/ DoRebuild

SpecEngine == InitEngine /\ [][NextEngine]_vars

\* The same engine with a broker funded by its own configuration.
SpecEngineFunded == InitEngineFunded /\ [][NextEngine]_vars

(***************************************************************************)
(* PerformanceCalculator                                                   *)
(***************************************************************************)
\* str.upper() on the action texts that occur.
Upper(text) ==
    IF text = "sell" THEN "SELL" ELSE IF text = "buy" THEN "BUY" ELSE text

\* An entry of a trade log; realized_pnl_trade is None when the entry has no
\* such key.
LoggedTrade(action, realized_pnl_trade) ==
    [symbol |-> "A", action |-> action, quantity |-> 1, price |-> RInt(2),
     commission |-> Zero, order_id |-> 0,
     realized_pnl_trade |-> realized_pnl_trade,
     cash_after_trade |-> RInt(InitialCash)]

\* t.get('action', '').upper() == 'SELL' and 'realized_pnl_trade' in t
CountsAsTrade(t) == Upper(t.action) = "SELL" /\ ~IsNone(t.realized_pnl_trade)

\* A slip of the filter: every entry that carries the key is taken.
TaggedOfAnyAction(t) == ~IsNone(t.realized_pnl_trade)

\* A slip of trade_pnls: the action of the entry is not looked at.
TradePnlsOfAnyAction(log) ==
    [i \in 1..Len(SelectSeq(log, TaggedOfAnyAction)) |->
        SelectSeq(log, TaggedOfAnyAction)[i].realized_pnl_trade]

\* trade_pnls: the realized PnL of the SELL entries that carry one, in the
\* order of the log.
TradePnls(log) ==
    [i \in 1..Len(SelectSeq(log, CountsAsTrade)) |->
        SelectSeq(log, CountsAsTrade)[i].realized_pnl_trade]

\* sum() of a list of amounts.
RECURSIVE SumSeq(_)
SumSeq(amounts) ==
    IF amounts = <<>> THEN Zero
    ELSE RAdd(SumSeq(SubSeq(amounts, 1, Len(amounts) - 1)), amounts[Len(amounts)])

Wins(pnls) == SelectSeq(pnls, LAMBDA pnl : RGt(pnl, Zero))
Losses(pnls) == SelectSeq(pnls, LAMBDA pnl : RLt(pnl, Zero))

\* The dict returned when there is no trade log or no SELL with a PnL; the
\* key num_closed_trades_with_pnl is absent from it.
NoStatistics(total_trades) ==
    [total_trades |-> total_trades, num_closed_trades_with_pnl |-> None,
     winning_trades |-> 0, losing_trades |-> 0, win_rate |-> Zero,
     average_win_amount |-> Zero, average_loss_amount |-> Zero,
     profit_factor |-> Zero, average_trade_pnl |-> Zero]

\* The statistics of a list of PnLs that is not empty.
StatisticsOf(total_trades, pnls, wins, losses) ==
    [total_trades |-> total_trades,
     num_closed_trades_with_pnl |-> RInt(Len(wins) + Len(losses)),
     winning_trades |-> Len(wins),
     losing_trades |-> Len(losses),
     win_rate |-> IF Len(wins) + Len(losses) > 0
                  THEN Rat(Len(wins), Len(wins) + Len(losses)) ELSE Zero,
     average_win_amount |-> IF Len(wins) > 0
                            THEN RDiv(SumSeq(wins), RInt(Len(wins))) ELSE Zero,
     average_loss_amount |-> IF Len(losses) > 0
                             THEN RDiv(RSub(Zero, SumSeq(losses)), RInt(Len(losses)))
                             ELSE Zero,
     profit_factor |-> IF RGt(RSub(Zero, SumSeq(losses)), Zero)
                       THEN RDiv(SumSeq(wins), RSub(Zero, SumSeq(losses))) ELSE Inf,
     average_trade_pnl |-> IF Len(wins) + Len(losses) > 0
                           THEN RDiv(SumSeq(pnls), RInt(Len(wins) + Len(losses)))
                           ELSE Zero]

\* PerformanceCalculator.get_trade_statistics()
GetTradeStatistics(log) ==
    IF log = <<>> THEN NoStatistics(0)
    ELSE IF TradePnls(log) = <<>> THEN NoStatistics(Len(log))
    ELSE StatisticsOf(Len(log), TradePnls(log), Wins(TradePnls(log)),
                      Losses(TradePnls(log)))

\* The entries of the logs handed to the calculator: BUY entries as the
\* Portfolio logs them and with a PnL of their own, SELL entries that lost,
\* broke even and won, one written in lower case, and a SELL without the key.
LoggedTrades ==
    {LoggedTrade("BUY", Zero), LoggedTrade("BUY", RInt(1)),
     LoggedTrade("SELL", RInt(-1)), LoggedTrade("SELL", Zero),
     LoggedTrade("SELL", RInt(2)), LoggedTrade("sell", RInt(1)),
     LoggedTrade("SELL", None)}

TradeLogs == UNION {[1..n -> LoggedTrades] : n \in 0..MaxFills}

\* PerformanceCalculator(portfolio_history, trade_log, initial_capital): the
\* calculator is handed the history and a trade log of a Portfolio.
InitPerformance ==
    /\ cash = RInt(InitialCash)
    /\ positions = NoPositions
    /\ trade_log \in TradeLogs
    /\ portfolio_history = <<HistoryRecord(RInt(InitialCash), NoPositions)>>
    /\ pf_provider = FALSE
    /\ BrokerInit(RInt(InitialCash), Zero, "none")
    /\ RiskManagerInit("percent_risk")
    /\ lastOp = NoOp
    /\ engine = IdleEngine

\* calculator.get_trade_statistics()
DoGetTradeStatistics ==
    /\ Called([op |-> "get_trade_statistics",
               result |-> GetTradeStatistics(trade_log)])
    /\ UNCHANGED <<pfVars, brokerVars, configVars, riskVars>>

\* calculator.get_total_return()
DoGetTotalReturn ==
    /\ Called([op |-> "get_total_return",
               result |-> IF portfolio_history = <<>> \/ InitialCash <= 0 THEN Zero
                          ELSE RDiv(RSub(portfolio_history[Len(portfolio_history)].total_value,
                                         RInt(InitialCash)),
                                    RInt(InitialCash))])
    /\ UNCHANGED <<pfVars, brokerVars, configVars, riskVars>>

NextPerformance ==
    \/ DoGetTradeStatistics
    \/ DoGetTotalReturn

SpecPerformance == InitPerformance /\ [][NextPerformance]_vars

(***************************************************************************)
(* Claims about the Portfolio (checked under SpecPortfolio)                *)
(***************************************************************************)
Held(pos, s) == IF s \in DOMAIN pos THEN pos[s].quantity ELSE 0

\* Sum over all positions of quantity x current price.
PositionsWorth(pos) ==
    SumOver([s \in DOMAIN pos |-> RMul(RInt(pos[s].quantity), pos[s].current_price)],
            DOMAIN pos)

LastRecord == portfolio_history[Len(portfolio_history)]

\* C1: get_total_value returns cash plus the sum over all positions of
\* quantity x current price, every record of portfolio_history has
\* total_value = cash + positions_value, and the record a call has just appended
\* carries the current cash and that same sum as positions_value.
C1_TotalValue ==
    /\ lastOp.op = "get_total_value" =>
          lastOp.result = RAdd(cash, PositionsWorth(positions))
    /\ \A i \in 1..Len(portfolio_history) :
          portfolio_history[i].total_value =
              RAdd(portfolio_history[i].cash, portfolio_history[i].positions_value)
    /\ (lastOp.op \in {"init", "_record_portfolio_value"}
         \/ (lastOp.op = "update_fill" /\ lastOp.outcome = "accepted")) =>
          /\ LastRecord.cash = cash
          /\ LastRecord.positions_value = PositionsWorth(positions)
          /\ LastRecord.total_value = RAdd(cash, PositionsWorth(positions))

\* A total is asked for while two symbols are held at different current prices,
\* after a sale.
C1_Witness ==
    /\ lastOp.op = "get_total_value"
    /\ DOMAIN positions = Symbols
    /\ \A s \in Symbols : positions[s].quantity > 0
    /\ positions["A"].current_price # positions["B"].current_price
    /\ Len(trade_log) = 3

\* C2: update_fill with a SELL of more than is held (also of a symbol that has
\* no position record) changes nothing: cash, every position field, trade_log
\* and portfolio_history are what they were before the call.
C2_OversellNoMutation ==
    \A fill \in FillEvents, quotes \in ProviderQuotes(pf_provider) :
        (fill.action = "SELL" /\ fill.quantity > Held(positions, fill.symbol)) =>
            UpdateFill(Ledger, fill, quotes) = Ledger

\* An oversell has just been turned down on a ledger that holds the symbol.
C2_Witness ==
    /\ lastOp.op = "update_fill"
    /\ lastOp.outcome = "rejected_sell"
    /\ "A" \in DOMAIN positions
    /\ positions["A"].quantity = 1
    /\ Len(trade_log) >= 2

\* C3: after any sequence of BUY and SELL fills every position quantity is >= 0.
C3_QuantityNonNegative ==
    \A s \in DOMAIN positions : positions[s].quantity >= 0

\* A position has been sold down to 0 and a further SELL of it turned down.
C3_Witness ==
    /\ lastOp.op = "update_fill"
    /\ lastOp.outcome = "rejected_sell"
    /\ \E s \in DOMAIN positions : positions[s].quantity = 0
    /\ \E i \in 1..Len(trade_log) : trade_log[i].action = "SELL"

\* Entries i and i+1 of trade_log are a BUY and the SELL that follows it, of the
\* same symbol, quantity and price, both without commission.
RoundTripAt(i) ==
    /\ i + 1 <= Len(trade_log)
    /\ trade_log[i].action = "BUY"
    /\ trade_log[i + 1].action = "SELL"
    /\ trade_log[i + 1].symbol = trade_log[i].symbol
    /\ trade_log[i + 1].quantity = trade_log[i].quantity
    /\ trade_log[i + 1].price = trade_log[i].price
    /\ trade_log[i].commission = Zero
    /\ trade_log[i + 1].commission = Zero

\* Cash before the fill of entry i: cash changes with accepted fills only.
CashBefore(i) ==
    IF i = 1 THEN portfolio_history[1].cash ELSE trade_log[i - 1].cash_after_trade

\* The quantity of symbol s held after the first k entries of trade_log.
RECURSIVE HeldAfter(_, _)
HeldAfter(s, k) ==
    IF k = 0 THEN 0
    ELSE HeldAfter(s, k - 1)
         + (IF trade_log[k].symbol # s THEN 0
            ELSE IF trade_log[k].action = "BUY" THEN trade_log[k].quantity
            ELSE -trade_log[k].quantity)

\* C4 as stated: from any portfolio state, a BUY followed immediately by a SELL
\* of the same symbol, quantity and price, with zero commission, restores cash
\* and records a realized PnL of 0 for the SELL.
C4_RoundTripAnyState ==
    \A i \in 1..Len(trade_log) :
        RoundTripAt(i) =>
            /\ trade_log[i + 1].cash_after_trade = CashBefore(i)
            /\ trade_log[i + 1].realized_pnl_trade = Zero

\* C4 as amended: such a round trip restores cash from any state, and the
\* SELL's realized PnL is 0 when nothing of the symbol was held before the BUY.
C4_RoundTripFromFlat ==
    \A i \in 1..Len(trade_log) :
        RoundTripAt(i) =>
            /\ trade_log[i + 1].cash_after_trade = CashBefore(i)
            /\ HeldAfter(trade_log[i].symbol, i - 1) = 0 =>
                  trade_log[i + 1].realized_pnl_trade = Zero

\* A round trip made from a flat position that had been held and closed before.
C4_Witness ==
    /\ Len(trade_log) = 3
    /\ RoundTripAt(2)
    /\ trade_log[1].symbol = trade_log[2].symbol
    /\ trade_log[1].price # trade_log[2].price
    /\ lastOp.op = "update_fill"

(***************************************************************************)
(* Claims about the SimulatedBroker (checked under Spec)                   *)
(***************************************************************************)
\* C5: once an order has status filled, rejected or cancelled, no later
\* place_order, cancel_order or process_pending_orders call changes its
\* status, filled quantity or fill price.
C5_TerminalImmutable ==
    [][\A i \in DOMAIN orders :
          orders[i].status \in Terminal =>
              /\ i \in DOMAIN orders'
              /\ orders'[i].status = orders[i].status
              /\ orders'[i].filled_quantity = orders[i].filled_quantity
              /\ orders'[i].avg_fill_price = orders[i].avg_fill_price]_vars

\* A bar has been evaluated against a queued order while a filled order was on
\* the books, and another order ended rejected or cancelled.
C5_Witness ==
    /\ lastOp.op = "process_pending_orders"
    /\ DOMAIN lastOp.evaluated # {}
    /\ \E i \in DOMAIN orders : orders[i].status = "filled"
    /\ \E i \in DOMAIN orders : orders[i].status \in {"rejected", "cancelled"}

\* process_pending_orders on the current books with bar closes data.
AfterBars(data, quotes) ==
    ProcessPendingOrders(World, is_connected, data, QuotesFor(br_provider, quotes),
                         QuotesFor(pf_provider, quotes), Config)

\* place_order of order on the current books.
AfterPlace(order, quotes) ==
    PlaceOrder(World, order, ids_issued + 1, QuotesFor(br_provider, quotes)[order.symbol],
               QuotesFor(pf_provider, quotes), Config)

AnyQuotes == ProviderQuotes(br_provider \/ pf_provider)

\* The trigger of a LIMIT or STOP order at a bar close, as the claim words it.
TriggerHolds(o, close) ==
    \/ o.order_type = "LIMIT" /\ o.action = "BUY" /\ RLe(close, o.price)
    \/ o.order_type = "LIMIT" /\ o.action = "SELL" /\ RGe(close, o.price)
    \/ o.order_type = "STOP" /\ o.action = "BUY" /\ RGe(close, o.stop_price)
    \/ o.order_type = "STOP" /\ o.action = "SELL" /\ RLe(close, o.stop_price)

\* The pending orders of the given types whose symbol has a bar in data.
Evaluated(types, data) ==
    {i \in DOMAIN orders : /\ orders[i].status = "pending"
                           /\ orders[i].order_type \in types
                           /\ orders[i].symbol \in DOMAIN data}

\* C6: on a connected broker a LIMIT or STOP order is pending when place_order
\* returns, whatever the current price; in each later evaluation against a bar
\* of its symbol it leaves pending exactly when its trigger holds on the close;
\* when the trigger does not hold it stays pending, and an evaluation in which
\* no trigger holds changes no cash and no position.
C6_LimitStopTrigger ==
    is_connected =>
      /\ \A order \in WellFormedOrders, quotes \in AnyQuotes :
            order.order_type \in {"LIMIT", "STOP"} =>
               LET done == AfterPlace(order, quotes)
               IN /\ done.result.status = "pending"
                  /\ done.w.orders[ids_issued + 1].status = "pending"
                  /\ ids_issued + 1 \in DOMAIN done.w.pending_orders
                  /\ done.w.cash_balance = cash_balance
                  /\ done.w.positions = broker_positions
                  /\ done.w.pf = Ledger
      /\ \A data \in BarData(PendingSymbols), quotes \in AnyQuotes :
            LET after == AfterBars(data, quotes)
                mine == Evaluated({"LIMIT", "STOP"}, data)
            IN /\ \A i \in mine :
                    LET trigger == TriggerHolds(orders[i], data[orders[i].symbol])
                    IN /\ after.orders[i].status # "pending" <=> trigger
                       /\ ~trigger => /\ after.orders[i] = orders[i]
                                      /\ i \in DOMAIN after.pending_orders
               /\ (/\ DOMAIN pending_orders \subseteq mine
                   /\ \A i \in mine : ~TriggerHolds(orders[i], data[orders[i].symbol]))
                  => /\ after.cash_balance = cash_balance
                     /\ after.positions = broker_positions
                     /\ after.pf = Ledger

\* One evaluation has left a LIMIT order pending at a close that does not reach
\* its limit and has filled a STOP order at the same close.
C6_Witness ==
    /\ lastOp.op = "process_pending_orders"
    /\ \E i, j \in DOMAIN lastOp.evaluated :
          /\ orders[i].order_type = "LIMIT"
          /\ orders[i].status = "pending"
          /\ ~TriggerHolds(orders[i], lastOp.evaluated[i])
          /\ orders[j].order_type = "STOP"
          /\ orders[j].status = "filled"

\* The two conditions of a STOP_LIMIT order at a bar close, as the claim words
\* them.
StopHolds(o, close) ==
    \/ o.action = "BUY" /\ RLe(o.stop_price, close)
    \/ o.action = "SELL" /\ RLe(close, o.stop_price)

BothHold(o, close) ==
    \/ o.action = "BUY" /\ RLe(o.stop_price, close) /\ RLe(close, o.price)
    \/ o.action = "SELL" /\ RLe(o.price, close) /\ RLe(close, o.stop_price)

\* C7: in an evaluation against a bar of its symbol a STOP_LIMIT order executes
\* exactly when its stop and its limit condition both hold on that close; when
\* the stop holds and the limit fails, the order record and the queue entry are
\* what they were, so nothing records that the stop was reached.
C7_StopLimitSameBar ==
    is_connected =>
      \A data \in BarData(PendingSymbols), quotes \in AnyQuotes :
         LET after == AfterBars(data, quotes)
         IN \A i \in Evaluated({"STOP_LIMIT"}, data) :
               LET close == data[orders[i].symbol]
               IN /\ after.orders[i].status # "pending" <=> BothHold(orders[i], close)
                  /\ (StopHolds(orders[i], close) /\ ~BothHold(orders[i], close)) =>
                        /\ after.orders[i] = orders[i]
                        /\ i \in DOMAIN after.pending_orders
                        /\ after.pending_orders[i] = pending_orders[i]

\* A STOP_LIMIT order has stayed pending at a close that reached its stop and
\* missed its limit, and another STOP_LIMIT order has executed.
C7_Witness ==
    /\ lastOp.op = "process_pending_orders"
    /\ \E i \in DOMAIN lastOp.evaluated :
          /\ orders[i].order_type = "STOP_LIMIT"
          /\ orders[i].status = "pending"
          /\ StopHolds(orders[i], lastOp.evaluated[i])
    /\ \E j \in DOMAIN orders :
          orders[j].order_type = "STOP_LIMIT" /\ orders[j].status = "filled"

\* The price a MARKET order is filled at: the provider's quote, or the order's
\* reference price when there is none, moved by the slippage.
FillPrice(order, quote) ==
    ApplySlippage(slippage_model, IF IsNone(quote) THEN order.price ELSE quote,
                  order.action)

\* C8: place_order of a well-formed MARKET order on a connected broker returns
\* filled or rejected and leaves the order out of the pending queue; a BUY is
\* rejected exactly when the broker's cash is below quantity x fill price +
\* commission, a SELL exactly when less than the quantity is held; a rejected
\* order changes no cash and no position of the broker or the Portfolio.
C8_MarketImmediate ==
    is_connected =>
      \A order \in WellFormedOrders, quotes \in AnyQuotes :
         order.order_type = "MARKET" =>
            LET id == ids_issued + 1
                done == AfterPlace(order, quotes)
                price == FillPrice(order, QuotesFor(br_provider, quotes)[order.symbol])
                rejected == done.result.status = "rejected"
            IN /\ done.result.status \in {"filled", "rejected"}
               /\ done.w.orders[id].status = done.result.status
               /\ id \notin DOMAIN done.w.pending_orders
               /\ order.action = "BUY" =>
                     (rejected <=>
                        RLt(cash_balance,
                            RAdd(RMul(RInt(order.quantity), price), commission_per_trade)))
               /\ order.action = "SELL" =>
                     (rejected <=> Held(broker_positions, order.symbol) < order.quantity)
               /\ rejected => /\ done.w.cash_balance = cash_balance
                              /\ done.w.positions = broker_positions
                              /\ done.w.pf = Ledger

\* A MARKET BUY has just been rejected at the provider's quote on a broker that
\* writes to a Portfolio and holds a position.
C8_Witness ==
    /\ lastOp.op = "place_order"
    /\ lastOp.result.status = "rejected"
    /\ lastOp.result.message = "Insufficient cash"
    /\ ~IsNone(lastOp.quote)
    /\ portfolio_ref
    /\ \E s \in DOMAIN broker_positions : broker_positions[s].quantity > 0

\* C9: cancel_order on a filled, rejected or cancelled order returns a failure
\* and changes nothing in the broker or the Portfolio, and a second call returns
\* the same result.
C9_CancelTerminal ==
    \A i \in DOMAIN orders :
        orders[i].status \in Terminal =>
            LET first == CancelOrder(World, i)
                second == CancelOrder(first.w, i)
            IN /\ first.result.status = "failed"
               /\ first.w = World
               /\ second.result = first.result
               /\ second.w = World

\* cancel_order has just failed on a filled order while another order is queued.
C9_Witness ==
    /\ lastOp.op = "cancel_order"
    /\ lastOp.result.status = "failed"
    /\ lastOp.order_id \in DOMAIN orders
    /\ orders[lastOp.order_id].status = "filled"
    /\ DOMAIN pending_orders # {}

\* C10: an order becomes cancelled only in a cancel_order call on it, made
\* while it is pending; after that call it is not in the pending queue, and a
\* cancelled order never enters the queue again.
C10_CancelledFromPending ==
    [][\A i \in DOMAIN orders' :
          orders'[i].status = "cancelled" =>
              /\ i \notin DOMAIN pending_orders'
              /\ i \in DOMAIN orders
              /\ orders[i].status # "cancelled" =>
                    /\ orders[i].status = "pending"
                    /\ lastOp'.op = "cancel_order"
                    /\ lastOp'.order_id = i
                    /\ lastOp'.result.status = "cancelled"]_vars

\* A bar that meets the trigger of a cancelled order has been evaluated against
\* another queued order, and the cancelled order is still cancelled.
C10_Witness ==
    /\ lastOp.op = "process_pending_orders"
    /\ \E i \in DOMAIN orders, j \in DOMAIN lastOp.evaluated :
          /\ orders[i].status = "cancelled"
          /\ orders[i].order_type = "LIMIT"
          /\ orders[j].symbol = orders[i].symbol
          /\ TriggerHolds(orders[i], lastOp.evaluated[j])

(***************************************************************************)
(* Claims: broker and Portfolio ledgers                                    *)
(***************************************************************************)
BrokerHeld(s) == IF s \in DOMAIN broker_positions THEN broker_positions[s].quantity ELSE 0

LogEntriesOf(order_id) == {k \in DOMAIN trade_log : trade_log[k].order_id = order_id}

Adjustments ==
    {[signal |-> call[1], position_state |-> call[2], portfolio_state |-> ps,
      result |-> AdjustOrderSize(RiskState, position_sizing_method, call[1], ps,
                                 call[2])] :
        call \in Calls, ps \in Snapshots}

Opening(signal) == signal.action \in {"BUY", "SHORT"}

\* The order came back with a quantity > 0.
SizedAbove0(result) == ~result.raised /\ RGt(result.order.quantity, Zero)

\* |entry price - stop_loss_price| x quantity of a returned order.
OrderRisk(order) ==
    RMul(RAbs(RSub(order.price, order.stop_loss_price)), order.quantity)

\* A BUY or SHORT with a stop that came back sized keeps its risk within the
\* per-trade share of the capital tracked at the time of sizing.
RiskBounded(a) ==
    (Opening(a.signal) /\ ~IsNone(a.signal.stop_loss_price) /\ SizedAbove0(a.result))
        => RLe(OrderRisk(a.result.order),
               RMul(a.result.rm.current_capital, MaxRiskPerTradePct))

Sizings ==
    {[input |-> input, portfolio_state |-> ps,
      result |-> CalculateMaxPositionSize(RiskState, position_sizing_method,
                     input.price, ps, input.stop_loss_price, input.action)] :
        input \in SizingInputs, ps \in Snapshots}

\* (high_water_mark - capital) / high_water_mark >= max_drawdown_limit_pct.
BreakerTriggered(rm) ==
    /\ RGt(rm.high_water_mark, Zero)
    /\ RGe(RSub(rm.high_water_mark, rm.current_capital),
           RMul(rm.high_water_mark, MaxDrawdownLimitPct))

\* C13: whenever the drawdown of the capital the manager tracks at the time of
\* sizing is >= max_drawdown_limit_pct, adjust_order_size and
\* calculate_max_position_size size every BUY and SHORT to quantity 0, under
\* every sizing method and with or without a requested quantity; a sized
\* BUY/SHORT is therefore possible only once an update has brought the
\* drawdown below the limit.
C13_BreakerSizesToZero ==
    /\ \A a \in Adjustments :
           (Opening(a.signal) /\ BreakerTriggered(a.result.rm))
               => ~a.result.raised /\ a.result.order.quantity = Zero
    /\ \A z \in Sizings :
           BreakerTriggered(z.result.rm) => z.result.quantity = Zero

\* The capital has fallen from its peak to exactly the limit and a BUY or SHORT
\* has just been sized to 0.
C13_Witness ==
    /\ lastOp.op = "adjust_order_size"
    /\ lastOp.action \in {"BUY", "SHORT"}
    /\ ~lastOp.sized
    /\ lastOp.reason = "Max drawdown limit reached."
    /\ high_water_mark = RInt(InitialCapital)
    /\ current_capital = RInt(90000)

\* The manager's state and the outcome when the signal of a call is taken
\* through OrderHandler's risk gate in the current state.
GateOf(call, ps) ==
    RiskGate(RiskState, position_sizing_method, call[1], ps, call[2])

\* C14 as stated: while the drawdown breaker is triggered, a SELL (numeric
\* quantity or 'all') for a symbol with a held position passes the risk gate
\* with a quantity > 0.
C14_ClosingPermitted ==
    \A call \in Calls, ps \in Snapshots :
        LET gate == GateOf(call, ps)
        IN (/\ call[1].action = "SELL"
            /\ HeldQuantity(call[2]) > 0
            /\ BreakerTriggered(gate.rm))
               => gate.status = "passed" /\ RGt(gate.order.quantity, Zero)

\* C15 as stated, for the default percent_risk method: in every reachable
\* state each symbol's entry in positions_risk is <= tracked capital x
\* max_risk_per_trade_pct and the aggregate risk in use is <= tracked capital
\* x max_total_risk_pct, also after the tracked capital has fallen.
C15_LedgerWithinLimits ==
    position_sizing_method = "percent_risk"
        => /\ \A s \in DOMAIN positions_risk :
                  RLe(positions_risk[s], RMul(current_capital, MaxRiskPerTradePct))
           /\ RLe(current_total_risk_amount,
                  RMul(current_capital, MaxTotalRiskPct))

\* C16: over any sequence of snapshots pushed to the risk manager the
\* high_water_mark never decreases, it is >= the tracked capital after every
\* step, and the computed drawdown is >= 0, and 0 for a high_water_mark of 0.
C16_HighWaterMark ==
    /\ RGe(high_water_mark, current_capital)
    /\ [][/\ RGe(high_water_mark', high_water_mark)
          /\ RGe(high_water_mark', current_capital')
          /\ RGe(CalculateCurrentDrawdown(RiskState'), Zero)
          /\ CalculateCurrentDrawdown(
                 [RiskState' EXCEPT !.high_water_mark = Zero]) = Zero]_vars

\* A snapshot has just been pushed that leaves the capital below a peak
\* reached by an earlier snapshot.
C16_Witness ==
    /\ lastOp.op = "update_portfolio_state"
    /\ high_water_mark = RInt(200000)
    /\ RLt(current_capital, high_water_mark)
    /\ RGt(CalculateCurrentDrawdown(RiskState), Zero)

\* The whole-unit floor of a quantity >= 0.
WholeUnits(q) == RInt(q.n \div q.d)

\* The cash of a snapshot that an order may spend: cash less the minimum cash
\* balance.
CashForOrder(rm, ps) ==
    RSub(Get(ps.cash, Zero), RMul(rm.current_capital, MinCashBalancePct))

\* The size the percent-risk rule gives: the floor of the smallest of the
\* risk-budget quantity, the asset-concentration quantity, the order-value
\* quantity and, for a BUY, the cash quantity; 0 without budget or, for a BUY,
\* without cash for the order.
PercentRiskSize(rm, action, price, stop, ps) ==
    LET capital == rm.current_capital
        budget == RMin(RMul(capital, MaxRiskPerTradePct),
                       RSub(RMul(capital, MaxTotalRiskPct),
                            rm.current_total_risk_amount))
        by_risk == RDiv(budget, RAbs(RSub(price, stop)))
        by_asset == RDiv(RMul(capital, MaxPositionPctAsset), price)
        by_order == RDiv(RMul(capital, MaxOrderValuePct), price)
        by_cash == RDiv(CashForOrder(rm, ps), price)
        uncapped == RMin(by_risk, RMin(by_asset, by_order))
    IN  IF RLe(budget, Zero) THEN Zero
        ELSE IF action # "BUY" THEN WholeUnits(uncapped)
        ELSE IF RLe(CashForOrder(rm, ps), Zero) THEN Zero
        ELSE WholeUnits(RMin(uncapped, by_cash))

\* The stop of a sizing input is present, > 0 and on the losing side of the
\* entry price.
StopUsable(input) ==
    /\ ~IsNone(input.stop_loss_price)
    /\ RGt(input.stop_loss_price, Zero)
    /\ IF input.action = "BUY" THEN RLt(input.stop_loss_price, input.price)
       ELSE RGt(input.stop_loss_price, input.price)

\* C17: under percent-risk sizing with no data provider, with the breaker not
\* triggered and a usable stop, calculate_max_position_size returns the
\* whole-unit floor of min(budget / |entry - stop|, capital x
\* max_position_pct_asset / price, cash for the order / price, capital x
\* max_order_value_pct / price) with budget = min(capital x
\* max_risk_per_trade_pct, capital x max_total_risk_pct - risk in use), and 0
\* when budget <= 0; the cash term applies to a BUY only.
C17_PercentRiskSizing ==
    position_sizing_method = "percent_risk"
        => \A z \in Sizings :
               (/\ ~z.portfolio_state.empty
                /\ StopUsable(z.input)
                /\ ~BreakerTriggered(z.result.rm))
                   => z.result.quantity =
                          PercentRiskSize(z.result.rm, z.input.action, z.input.price,
                                          z.input.stop_loss_price, z.portfolio_state)

\* A percent-risk BUY has just been sized by calculate_max_position_size in a
\* state where 4000 of the total budget of 5000 is in use: the remaining
\* budget of 1000 gives 100 units at a stop distance of 10, below every other
\* limit, while a SHORT is sized from a snapshot whose cash allows no BUY.
C17_Witness ==
    /\ lastOp.op = "calculate_max_position_size"
    /\ lastOp.action = "BUY"
    /\ lastOp.sized
    /\ position_sizing_method = "percent_risk"
    /\ current_total_risk_amount = RInt(4000)
    /\ \E z \in Sizings :
           /\ z.input.action = "BUY"
           /\ z.input.stop_loss_price = RInt(40)
           /\ z.portfolio_state = PortfolioState(RInt(InitialCapital), RInt(InitialCapital))
           /\ z.result.quantity = RInt(100)
    /\ \A z \in Sizings :
           (/\ z.portfolio_state = PortfolioState(RInt(200000), RInt(5000))
            /\ z.input.action = "BUY") => z.result.quantity = Zero
    /\ \E z \in Sizings :
           /\ z.portfolio_state = PortfolioState(RInt(200000), RInt(5000))
           /\ z.input.action = "SHORT"
           /\ RGt(z.result.quantity, Zero)

\* The manager tracks a capital of 100000 at its peak and has no risk
\* allocated.
ScenarioAStart ==
    /\ current_capital = RInt(InitialCapital)
    /\ high_water_mark = RInt(InitialCapital)
    /\ DOMAIN positions_risk = {}
    /\ current_total_risk_amount = Zero

\* C18 (Scenario A): with capital 100000, max_risk_per_trade_pct 0.02, an empty
\* risk ledger and no held position, entry 50 and stop 45 give a per-trade
\* budget of 2000, a unit risk of 5 and a risk-budget quantity of 400; a BUY
\* requesting 100 is adjusted under percent-risk sizing to exactly 100 and the
\* symbol's ledger entry and the aggregate become 500.
C18_ScenarioA ==
    (ScenarioAStart /\ position_sizing_method = "percent_risk")
        => /\ RiskBudget(RiskState) = RInt(2000)
           /\ RAbs(RSub(ScenarioA.price, ScenarioA.stop_loss_price)) = RInt(5)
           /\ RDiv(RiskBudget(RiskState),
                   RAbs(RSub(ScenarioA.price, ScenarioA.stop_loss_price))) = RInt(400)
           /\ \A a \in Adjustments :
                  (/\ a.signal = ScenarioA
                   /\ a.position_state = NoPositionState
                   /\ a.portfolio_state.total_value = RInt(InitialCapital))
                      => /\ ~a.result.raised
                         /\ a.result.order.quantity = RInt(100)
                         /\ a.result.order.calculated_risk = RInt(500)
                         /\ a.result.rm.positions_risk = [s \in {"A"} |-> RInt(500)]
                         /\ a.result.rm.current_total_risk_amount = RInt(500)

\* The BUY of Scenario A has just been adjusted: the ledger holds 500 for the
\* symbol and 500 in total at a capital of 100000.
C18_Witness ==
    /\ lastOp.op = "adjust_order_size"
    /\ lastOp.action = "BUY"
    /\ lastOp.sized
    /\ position_sizing_method = "percent_risk"
    /\ current_capital = RInt(InitialCapital)
    /\ high_water_mark = RInt(InitialCapital)
    /\ positions_risk = [s \in {"A"} |-> RInt(500)]
    /\ current_total_risk_amount = RInt(500)

Closing(signal) == signal.action \in {"SELL", "COVER"}

\* C19: for every SELL or COVER, adjust_order_size returns a quantity >= 0 and
\* <= the held quantity: 'all' gives the holding, a numeric request above the
\* holding is clipped to it (150 against 100 gives 100), a request within the
\* holding is kept, and with no held position the quantity is 0; the holding
\* less the returned quantity is never negative.
C19_ClosingClipped ==
    \A a \in Adjustments :
        Closing(a.signal) =>
            LET held == HeldQuantity(a.position_state)
                requested == a.signal.quantity
                quantity == a.result.order.quantity
            IN  /\ ~a.result.raised
                /\ IsNumber(quantity)
                /\ RGe(quantity, Zero)
                /\ RLe(quantity, RInt(held))
                /\ RGe(RSub(RInt(held), quantity), Zero)
                /\ (~FieldsInvalid(a.signal) /\ requested = All)
                       => quantity = RInt(held)
                /\ (~FieldsInvalid(a.signal) /\ IsNumber(requested))
                       => quantity = RMin(requested, RInt(held))
                /\ held = 0 => quantity = Zero

\* A SELL has just closed a position, and in this state a SELL of 150 against
\* a holding of 100 comes back as 100.
C19_Witness ==
    /\ lastOp.op = "adjust_order_size"
    /\ lastOp.action = "SELL"
    /\ lastOp.sized
    /\ lastOp.reason = "Position closed."
    /\ \E a \in Adjustments :
           /\ a.signal.action = "SELL"
           /\ a.signal.quantity = RInt(150)
           /\ HeldQuantity(a.position_state) = 100
           /\ a.result.order.quantity = RInt(100)

\* The signal carries no stop: stop_loss_price is absent or <= 0.
NoStop(signal) ==
    IsNone(signal.stop_loss_price) \/ RLe(signal.stop_loss_price, Zero)

\* C20 (Scenario D): under percent-risk sizing a BUY with no stop_loss_price
\* (absent or <= 0) is sized by adjust_order_size to quantity 0 with a reason
\* in the returned order, with or without a requested quantity, and taken
\* through OrderHandler's risk gate it does not pass on to the broker.
C20_NoStopSizedToZero ==
    position_sizing_method = "percent_risk"
        => /\ \A a \in Adjustments :
                  (a.signal.action = "BUY" /\ NoStop(a.signal))
                      => /\ ~a.result.raised
                         /\ a.result.order.quantity = Zero
                         /\ a.result.order.reason # ""
           /\ \A call \in Calls, ps \in Snapshots :
                  (call[1].action = "BUY" /\ NoStop(call[1]))
                      => GateOf(call, ps).status
                             \in {"rejected_risk", "rejected_risk_adjusted_to_zero"}

\* A percent-risk BUY without a stop has just been sized to 0 for lack of the
\* stop, and a BUY without a stop that requests 100 units is among the calls.
C20_Witness ==
    /\ lastOp.op = "adjust_order_size"
    /\ lastOp.action = "BUY"
    /\ ~lastOp.sized
    /\ lastOp.reason = "'percent_risk' sizing requires valid 'stop_loss_price' in signal."
    /\ position_sizing_method = "percent_risk"
    /\ \E a \in Adjustments :
           /\ a.signal.action = "BUY"
           /\ IsNone(a.signal.stop_loss_price)
           /\ a.signal.quantity = RInt(100)
           /\ a.result.order.quantity = Zero

(***************************************************************************)
(* Claims: ledgers over time                                               *)
(***************************************************************************)
\* BUY quantities minus SELL quantities of a symbol in the first k entries of
\* a trade log.
RECURSIVE LoggedNet(_, _, _)
LoggedNet(log, s, k) ==
    IF k = 0 THEN 0
    ELSE LoggedNet(log, s, k - 1)
         + (IF log[k].symbol # s THEN 0
            ELSE IF log[k].action = "BUY" THEN log[k].quantity
            ELSE -log[k].quantity)

LogAccountsForPositions(pos, log) ==
    \A s \in Symbols : Held(pos, s) = LoggedNet(log, s, Len(log))

\* C29: trade_log is append-only and accounts for every quantity change: a
\* step keeps every earlier entry as it was, an accepted fill appends exactly
\* one entry, a rejected or ignored fill and every other call none, and in
\* every state each symbol's quantity is the BUY quantities minus the SELL
\* quantities of that symbol in trade_log.
C29_TradeLogAppendOnly ==
    /\ LogAccountsForPositions(positions, trade_log)
    /\ [][/\ Len(trade_log') >= Len(trade_log)
          /\ SubSeq(trade_log', 1, Len(trade_log)) = trade_log
          /\ Len(trade_log') =
                 Len(trade_log)
                 + (IF lastOp'.op = "update_fill" /\ lastOp'.outcome = "accepted"
                    THEN 1 ELSE 0)
          /\ LogAccountsForPositions(positions', trade_log')]_vars

\* A SELL has just been turned down after a BUY and a SELL were accepted and
\* logged.
C29_Witness ==
    /\ lastOp.op = "update_fill"
    /\ lastOp.outcome = "rejected_sell"
    /\ Len(trade_log) = 2
    /\ \E i \in 1..Len(trade_log) : trade_log[i].action = "SELL"
    /\ \E i \in 1..Len(trade_log) : trade_log[i].action = "BUY"

\* C30: when adjust_order_size sizes a SELL or COVER to a quantity > 0, a full
\* or a partial exit alike, the symbol's whole allocation leaves the risk
\* ledger, the aggregate falls by exactly that amount and the other symbols'
\* allocations stay as they were; a SELL or COVER sized to 0 leaves the ledger
\* as it was.
C30_ExitReleasesRisk ==
    \A a \in Adjustments :
        Closing(a.signal) =>
            LET symbol == a.signal.symbol
                after == a.result.rm
            IN  IF RGt(a.result.order.quantity, Zero)
                THEN /\ symbol \notin DOMAIN after.positions_risk
                     /\ after.current_total_risk_amount =
                            RSub(current_total_risk_amount,
                                 RiskOf(positions_risk, symbol))
                     /\ \A other \in DOMAIN positions_risk \cup DOMAIN after.positions_risk :
                            other # symbol =>
                                RiskOf(after.positions_risk, other)
                                    = RiskOf(positions_risk, other)
                ELSE /\ after.positions_risk = positions_risk
                     /\ after.current_total_risk_amount = current_total_risk_amount

\* A partial exit has just released the 2000 allocated to its symbol and left
\* the 2000 of another symbol in the ledger.
C30_Witness ==
    /\ lastOp.op = "adjust_order_size"
    /\ lastOp.action \in {"SELL", "COVER"}
    /\ lastOp.sized
    /\ lastOp.reason = "Partial exit. Original risk removed."
    /\ lastOp.released = RInt(2000)
    /\ positions_risk = [s \in {"B"} |-> RInt(2000)]
    /\ current_total_risk_amount = RInt(2000)

(***************************************************************************)
(* Claims: OrderHandler                                                    *)
(***************************************************************************)
\* process_signal on the current state: what it returns and leaves behind.
Handled(input, broker_raises, quotes) ==
    ProcessSignal(World, RiskState, position_sizing_method, is_connected, input,
                  ids_issued + 1, QuotesFor(br_provider, quotes)["A"],
                  QuotesFor(pf_provider, quotes), Config, broker_raises)

Made(calls, name) == \E i \in 1..Len(calls) : calls[i] = name

GateReads == <<"get_summary", "get_position">>

\* The views of the portfolio the gate is shown: solvent with and without
\* enough cash, and the view with no keys that get_summary amounts to.
GateSnapshots ==
    {PortfolioState(RInt(InitialCapital), RInt(InitialCapital)),
     PortfolioState(RInt(200000), RInt(5000)),
     PortfolioState(None, None)}

\* The broker's books are what they were.
SameBooks(w) ==
    /\ w.cash_balance = cash_balance
    /\ w.positions = broker_positions
    /\ w.orders = orders
    /\ w.pending_orders = pending_orders
    /\ w.trade_history = trade_history

\* The Portfolio's cash, log, history and holdings are what they were; the
\* market values of the positions may have been refreshed.
SameHoldings(pf) ==
    /\ pf.cash = cash
    /\ pf.trade_log = trade_log
    /\ pf.portfolio_history = portfolio_history
    /\ DOMAIN pf.positions = DOMAIN positions
    /\ \A s \in DOMAIN positions :
           /\ pf.positions[s].quantity = positions[s].quantity
           /\ pf.positions[s].avg_price = positions[s].avg_price

\* The order of the steps of process_signal and the status of each way out;
\* Untouched(w) says what "left unchanged" asks of the world after a signal
\* that did not go to the broker.
PipelineOrdered(Untouched(_)) ==
    /\ \A input \in HandlerInputs, broker_raises \in BOOLEAN,
          quotes \in ProviderQuotes(br_provider \/ pf_provider) :
           \A r \in {Handled(input, broker_raises, quotes)},
              hold \in {input.shape = "empty"
                        \/ (input.shape = "dict" /\ input.signal.action = "HOLD")} :
               /\ hold <=> r.status = "ignored"
               /\ Made(r.calls, "place_order") =>
                      /\ r.calls = GateReads \o <<"validate_signal", "adjust_order_size",
                                                  "place_order">>
                      /\ ~hold
                      /\ r.order.quantity > 0
               /\ ~SameBooks(r.w) => Made(r.calls, "place_order")
               /\ r.status = "ignored" =>
                      r.calls = <<>> /\ SameBooks(r.w) /\ Untouched(r.w)
               /\ r.status = "rejected_risk" =>
                      /\ r.calls = GateReads \o <<"validate_signal">>
                      /\ SameBooks(r.w) /\ Untouched(r.w)
               /\ r.status = "rejected_risk_adjusted_to_zero" =>
                      /\ r.calls = GateReads \o <<"validate_signal", "adjust_order_size">>
                      /\ SameBooks(r.w) /\ Untouched(r.w)
               /\ (Made(r.calls, "place_order") /\ input.order_type = "") =>
                      /\ r.order.order_type = "MARKET"
                      /\ (ids_issued + 1) \in DOMAIN r.w.orders =>
                             r.w.orders[ids_issued + 1].order_type = "MARKET"
    /\ \A call \in Calls, ps \in GateSnapshots :
           \A gate \in {GateOf(call, ps)},
              v \in {ValidateSignal(RiskState, call[1], ps, call[2])} :
           \A adjusted \in {AdjustOrderSize(v.rm, position_sizing_method, call[1], ps,
                                            call[2])} :
               /\ gate.status = "ignored" <=> call[1].action = "HOLD"
               /\ gate.status = "rejected_risk" <=>
                      (call[1].action # "HOLD" /\ ~v.valid)
               /\ gate.status = "rejected_risk_adjusted_to_zero" <=>
                      /\ call[1].action # "HOLD" /\ v.valid /\ ~adjusted.raised
                      /\ adjusted.order.quantity = Zero
               /\ gate.status = "passed" =>
                      v.valid /\ RGt(adjusted.order.quantity, Zero)

WholePortfolioSame(w) == w.pf = Ledger

\* C21 as stated: place_order is called only for a signal that is not HOLD,
\* after validate_signal accepted it and adjust_order_size returned a
\* quantity > 0, in that order; HOLD or empty gives "ignored", a validation
\* reject "rejected_risk", a zero adjusted quantity
\* "rejected_risk_adjusted_to_zero", each leaving the broker and the whole
\* Portfolio as they were; an order without order_type is placed as MARKET.
C21_PipelinePortfolioUntouched == PipelineOrdered(WholePortfolioSame)

HoldingsSame(w) == SameHoldings(w.pf)

\* C21, amended: as above, except that after "rejected_risk" and
\* "rejected_risk_adjusted_to_zero" the Portfolio keeps its cash, holdings,
\* trade_log and history while the market values of its positions may have
\* been refreshed by get_summary.
C21_Pipeline == PipelineOrdered(HoldingsSame)

\* A SELL 'all' without order_type has just gone through validation and
\* sizing to the broker and was filled as a MARKET order.
C21_Witness ==
    /\ lastOp.op = "process_signal"
    /\ lastOp.status = "filled"
    /\ lastOp.calls = GateReads \o <<"validate_signal", "adjust_order_size",
                                     "place_order">>
    /\ lastOp.order.order_type = "MARKET"
    /\ lastOp.order.action = "SELL"
    /\ orders[ids_issued].order_type = "MARKET"
    /\ orders[ids_issued].status = "filled"

\* C22 as stated: for every signal, well-formed or malformed, and whatever
\* the broker does, process_signal returns a status result and lets no
\* exception out; a broker-call exception gives status "failed".
C22_NothingPropagates ==
    \A input \in HandlerInputs, broker_raises \in BOOLEAN,
       quotes \in ProviderQuotes(br_provider \/ pf_provider) :
        \A r \in {Handled(input, broker_raises, quotes)} :
            /\ r.status # "raised"
            /\ (broker_raises /\ Made(r.calls, "place_order")) => r.status = "failed"

\* The part of C22 that the code keeps: an exception of the broker's
\* place_order is caught and returned as "failed", the broker's books as they
\* were.
C22_BrokerExceptionFails ==
    \A input \in HandlerInputs, quotes \in ProviderQuotes(br_provider \/ pf_provider) :
        \A r \in {Handled(input, TRUE, quotes)} :
            Made(r.calls, "place_order") => r.status = "failed" /\ SameBooks(r.w)

\* A signal whose 'action' is None, or whose price is a text, has just left
\* process_signal by an exception.
C22_Raised ==
    /\ lastOp.op = "process_signal"
    /\ lastOp.status = "raised"
    /\ lastOp.shape \in {"action_none", "price_text"}

\* C28 as stated: after process_signal took a signal through the risk gate
\* with the snapshot of Portfolio.get_summary(), the risk manager's tracked
\* capital equals the Portfolio's total value of that moment, the
\* high-water mark is not below it, and the cash the risk manager reads in
\* the snapshot is the Portfolio's cash.  (Taken where the gate turned the
\* signal down, so that the Portfolio is still as the snapshot saw it.)
C28_CapitalFollowsSummary ==
    (/\ lastOp.op = "process_signal"
     /\ lastOp.status \in {"rejected_risk", "rejected_risk_adjusted_to_zero"})
    => /\ current_capital = TotalValue(cash, positions)
       /\ RGe(high_water_mark, current_capital)
       /\ AsPortfolioState(GetSummary(cash, positions)).cash = cash

\* What the code does instead: a snapshot of get_summary never moves the
\* tracked capital or the high-water mark, whatever the Portfolio is worth.
C28_CapitalNeverRefreshed ==
    /\ current_capital = RInt(InitialCapital)
    /\ high_water_mark = RInt(InitialCapital)

\* The gate has just turned a signal down while the Portfolio was worth
\* something else than the capital the risk manager tracks.
C28_Stale ==
    /\ lastOp.op = "process_signal"
    /\ lastOp.status = "rejected_risk"
    /\ current_capital # TotalValue(cash, positions)

(***************************************************************************)
(* Claims: BacktestingEngine                                               *)
(***************************************************************************)
\* How many events of the stream the loop has taken so far.
EventsDispatched ==
    IF engine.pc \in {"on_data", "pending", "record"} THEN engine.next
    ELSE engine.next - 1

\* The events taken are within the end date and in non-decreasing timestamp
\* order.
DispatchOrdered ==
    engine.returned # "raised" =>
        \A i \in 1..EventsDispatched :
            /\ engine.data_stream[i].timestamp <= EndDate
            /\ \A j \in 1..i :
                   engine.data_stream[j].timestamp <= engine.data_stream[i].timestamp

\* The market values of the held positions are those of their current
\* prices.
MarkedToMarket(pos) ==
    \A s \in DOMAIN pos :
        pos[s].quantity > 0 =>
            pos[s].market_value = RMul(RInt(pos[s].quantity), pos[s].current_price)

\* C23: every event of run_backtest goes through end-date check, snapshot
\* update and mark-to-market, then Strategy.on_data with the orders it places,
\* then the evaluation of all pending conditional orders, then exactly one
\* end-of-event history record, and only then does the loop move to the next
\* event; no event past the end date is dispatched and the events are
\* dispatched in non-decreasing timestamp order.
C23_EventOrder ==
    /\ DispatchOrdered
    /\ [][/\ DispatchOrdered'
          /\ engine.pc = "event" =>
                /\ engine'.pc \in {"on_data", "idle"}
                /\ engine'.next = engine.next
                /\ UNCHANGED <<cash, trade_log, portfolio_history, bookVars, ids_issued>>
                /\ engine'.pc = "on_data" =>
                      /\ engine.next <= Len(engine.data_stream)
                      /\ engine.data_stream[engine.next].timestamp <= EndDate
                      /\ engine'.current_market_data[engine.data_stream[engine.next].symbol]
                             = engine.data_stream[engine.next].close
                      /\ MarkedToMarket(positions')
                /\ engine'.pc = "idle" =>
                      IF engine.next > Len(engine.data_stream) THEN TRUE
                      ELSE engine.data_stream[engine.next].timestamp > EndDate
          /\ engine.pc = "on_data" =>
                /\ engine'.pc = "pending"
                /\ engine'.next = engine.next
                /\ engine'.current_market_data = engine.current_market_data
                /\ \A id \in DOMAIN pending_orders :
                       /\ id \in DOMAIN pending_orders'
                       /\ orders'[id] = orders[id]
          /\ engine.pc = "pending" =>
                /\ engine'.pc = "record"
                /\ engine'.next = engine.next
                /\ ids_issued' = ids_issued
                /\ DOMAIN orders' = DOMAIN orders
                /\ \A id \in DOMAIN pending_orders' :
                       \/ pending_orders'[id].symbol \notin DOMAIN engine.current_market_data
                       \/ ~ShouldExecute(pending_orders'[id],
                                         engine.current_market_data[pending_orders'[id].symbol])
          /\ engine.pc = "record" =>
                /\ engine'.pc = "event"
                /\ engine'.next = engine.next + 1
                /\ Len(portfolio_history') = Len(portfolio_history) + 1
                /\ UNCHANGED <<cash, trade_log, brokerVars>>
          /\ engine'.next # engine.next => engine.pc \in {"record", "idle"}
         ]_vars

\* Two events have gone through all their steps, an order was filled on the
\* way, and the third event of the stream lies past the end date.
C23_Witness ==
    /\ engine.pc = "event"
    /\ engine.next = 3
    /\ Len(engine.data_stream) = 3
    /\ engine.data_stream[3].timestamp > EndDate
    /\ Len(trade_log) = 1
    /\ Len(portfolio_history) = 4

\* The loop of a run is about to take its first event.
LoopStarts == engine.pc = "event" /\ engine.next = 1

\* C24 as stated: each run's event loop starts with a fresh Portfolio at
\* initial capital and with a broker and a risk manager that carry nothing
\* from an earlier run: no cash change, position, order, pending conditional
\* order, risk allocation or high-water mark.
C24_RunsShareNothing ==
    LoopStarts =>
        /\ cash = RInt(InitialCash)
        /\ positions = NoPositions
        /\ trade_log = <<>>
        /\ cash_balance = RInt(InitialCash)
        /\ DOMAIN broker_positions = {}
        /\ DOMAIN orders = {}
        /\ DOMAIN pending_orders = {}
        /\ trade_history = <<>>
        /\ current_capital = RInt(InitialCapital)
        /\ high_water_mark = RInt(InitialCapital)
        /\ current_total_risk_amount = Zero
        /\ DOMAIN positions_risk = {}

\* The part of C24 that the code keeps: the Portfolio of each run is new.
C24_PortfolioFresh ==
    LoopStarts =>
        /\ cash = RInt(InitialCash)
        /\ positions = NoPositions
        /\ trade_log = <<>>
        /\ Len(portfolio_history) = 1

\* In the second run on the same engine the strategy has placed nothing, and
\* the conditional order the first run left pending has been filled into the
\* new Portfolio.
C24_CarriedOrderFilled ==
    /\ engine.run = 2
    /\ ~engine.fresh
    /\ engine.first.trade_log = <<>>
    /\ \A i \in 1..Len(engine.script) : engine.script[i].order = NoOrder
    /\ Len(trade_log) = 1
    /\ trade_log[1].order_id = 1

\* The second run, on components constructed anew, has ended after the same
\* stream, the same provider answers and the same strategy orders as the
\* first.
SameRunAgain ==
    /\ engine.pc = "idle"
    /\ engine.run = 2
    /\ engine.fresh
    /\ engine.returned = "metrics"
    /\ engine.data_stream = engine.first.data_stream
    /\ engine.script = engine.first.script

\* C25 as stated: two runs with identical market data and strategy outputs
\* on identically configured, freshly constructed components produce the same
\* trade log, entry for entry, and the same portfolio_history, record for
\* record, timestamps included.
C25_Deterministic ==
    SameRunAgain =>
        /\ trade_log = engine.first.trade_log
        /\ portfolio_history = engine.first.portfolio_history
        /\ engine.stamps = engine.first.stamps

\* What the code keeps of C25: the two runs agree on everything but the order
\* ids and the timestamps of the records.
C25_SameButIdsAndClock ==
    SameRunAgain =>
        /\ portfolio_history = engine.first.portfolio_history
        /\ Len(engine.stamps) = Len(engine.first.stamps)
        /\ Len(trade_log) = Len(engine.first.trade_log)
        /\ \A i \in 1..Len(trade_log) :
               [trade_log[i] EXCEPT !.order_id = 0]
                   = [engine.first.trade_log[i] EXCEPT !.order_id = 0]

\* The same run again, with a fill in it: the two trade logs differ in the
\* order id, the two histories in a timestamp.
C25_Differs ==
    /\ SameRunAgain
    /\ Len(trade_log) = 1
    /\ trade_log[1].order_id # engine.first.trade_log[1].order_id
    /\ engine.stamps # engine.first.stamps

\* C26 as stated: every call of run_backtest returns a metrics dict or an
\* {"error": message} dict; when no symbol yields data it does not raise.
C26_AlwaysReturnsDict == engine.returned \in {"none", "metrics", "error"}

\* What the code keeps of C26: a run that got data from at least one symbol
\* goes through its loop and returns the metrics.
C26_DataGivesMetrics ==
    (engine.pc = "idle" /\ engine.run > 0 /\ engine.data_stream # <<>>) =>
        engine.returned = "metrics"

\* run_backtest has left by the ValueError of _prepare_data.
C26_Raised ==
    /\ engine.run > 0
    /\ engine.pc = "idle"
    /\ engine.returned = "raised"
    /\ engine.data_stream = <<>>

\* C27 as stated: a conditional order the strategy places while the engine
\* processes an event is not filled during that event.
C27_NotFilledSameEvent ==
    [][(engine.pc = "pending" /\ engine.placed \in DOMAIN pending_orders)
          => engine.placed \in DOMAIN pending_orders']_vars

\* What the code keeps of C27: the order placed in this event leaves the
\* pending orders in this event only when its condition holds on the bar of
\* this event's snapshot.
C27_FilledOnCurrentBarOnly ==
    [][(/\ engine.pc = "pending"
        /\ engine.placed \in DOMAIN pending_orders
        /\ engine.placed \notin DOMAIN pending_orders')
          => /\ pending_orders[engine.placed].symbol \in DOMAIN engine.current_market_data
             /\ ShouldExecute(pending_orders[engine.placed],
                              engine.current_market_data[pending_orders[engine.placed].symbol])
      ]_vars

\* A LIMIT order placed by on_data has been filled by the pending-order step
\* of the same event.
C27_SameEventFill ==
    /\ engine.pc = "record"
    /\ engine.placed \in DOMAIN orders
    /\ orders[engine.placed].order_type = "LIMIT"
    /\ orders[engine.placed].status = "filled"

\* ---- Claims: validation ----

\* Signals that carry a requested quantity and take the stop and budget tests
\* of validate_signal: a stop on the wrong side for a BUY and for a SHORT, a
\* risk of 4000 against a per-trade budget of 2000, a price of 0, and a SHORT
\* without quantity whose stop is below the entry.
BadSignals ==
    {Signal("BUY", "A", RInt(100), RInt(50), RInt(60)),
     Signal("SHORT", "A", RInt(100), RInt(50), RInt(40)),
     Signal("BUY", "A", RInt(100), RInt(50), RInt(10)),
     Signal("BUY", "A", RInt(100), Zero, RInt(45)),
     Signal("BUY", "", RInt(100), RInt(50), RInt(45)),
     Signal("SHORT", "A", None, RInt(50), RInt(40))}

ValidatedCalls == Calls \cup {<<signal, NoPositionState>> : signal \in BadSignals}

\* Missing action, symbol or price, or price <= 0.
Malformed(signal) ==
    \/ signal.action = ""
    \/ signal.symbol = ""
    \/ IsNone(signal.price)
    \/ RLe(signal.price, Zero)

\* A BUY whose entry price is <= its stop, a SHORT whose entry is >= its stop.
WrongSideOfStop(signal) ==
    /\ ~IsNone(signal.price)
    /\ ~IsNone(signal.stop_loss_price)
    /\ \/ signal.action = "BUY" /\ RLe(signal.price, signal.stop_loss_price)
       \/ signal.action = "SHORT" /\ RGe(signal.price, signal.stop_loss_price)

\* The risk |price - stop| x quantity of a BUY/SHORT with a quantity and a
\* stop; zero without them.
SignalRisk(signal) ==
    IF /\ signal.action \in {"BUY", "SHORT"}
       /\ IsNumber(signal.quantity) /\ RGt(signal.quantity, Zero)
       /\ IsNumber(signal.price) /\ RGt(signal.price, Zero)
       /\ IsNumber(signal.stop_loss_price) /\ RGt(signal.stop_loss_price, Zero)
    THEN RMul(RAbs(RSub(signal.price, signal.stop_loss_price)), signal.quantity)
    ELSE Zero

\* The risk exceeds the per-trade budget, or it raises the aggregate risk
\* above the total budget, at the capital the manager tracks.
OverBudget(rm, signal) ==
    /\ RGt(SignalRisk(signal), Zero)
    /\ \/ RGt(SignalRisk(signal), RMul(rm.current_capital, MaxRiskPerTradePct))
       \/ /\ RGt(SignalRisk(signal), RiskOf(rm.positions_risk, signal.symbol))
          /\ RGt(RAdd(RSub(rm.current_total_risk_amount,
                           RiskOf(rm.positions_risk, signal.symbol)),
                      SignalRisk(signal)),
                 RMul(rm.current_capital, MaxTotalRiskPct))

\* A SELL whose numeric quantity exceeds the held quantity.
Oversold(signal, position_state) ==
    /\ signal.action = "SELL"
    /\ IsNumber(signal.quantity)
    /\ RGt(signal.quantity, RInt(HeldQuantity(position_state)))

\* C31 as stated: validate_signal never reports as valid a malformed signal, a
\* BUY whose entry price is <= its stop or a SHORT whose entry is >= its stop,
\* a BUY/SHORT whose risk exceeds the per-trade or total budget, or a SELL of
\* more than is held, with or without a requested quantity.
C31_NeverValidatesBad ==
    \A call \in ValidatedCalls, ps \in Snapshots :
        \A v \in {ValidateSignal(RiskState, call[1], ps, call[2])} :
            (\/ Malformed(call[1])
             \/ WrongSideOfStop(call[1])
             \/ OverBudget(v.rm, call[1])
             \/ Oversold(call[1], call[2]))
                => ~v.valid

\* What the code keeps of C31: the same, for signals whose stop is tested,
\* that is every signal but a BUY/SHORT without a requested quantity.
C31_RejectsBadWithQuantity ==
    \A call \in ValidatedCalls, ps \in Snapshots :
        \A v \in {ValidateSignal(RiskState, call[1], ps, call[2])} :
            (\/ Malformed(call[1])
             \/ WrongSideOfStop(call[1]) /\ ~IsNone(call[1].quantity)
             \/ OverBudget(v.rm, call[1])
             \/ Oversold(call[1], call[2]))
                => ~v.valid

\* In the current state validate_signal reports as valid a BUY at 50 without a
\* quantity whose stop is at 60.
C31_WrongSideValid ==
    ValidateSignal(RiskState, Signal("BUY", "A", None, RInt(50), RInt(60)),
                   PortfolioState(RInt(InitialCapital), RInt(InitialCapital)),
                   NoPositionState).valid

(***************************************************************************)
(* Claims: realized PnL                                                    *)
(***************************************************************************)
\* The sum of realized_pnl_trade over the SELL entries of a symbol in the
\* first k entries of a trade log.
RECURSIVE LoggedRealized(_, _, _)
LoggedRealized(log, s, k) ==
    IF k = 0 THEN Zero
    ELSE RAdd(LoggedRealized(log, s, k - 1),
              IF log[k].symbol = s /\ log[k].action = "SELL"
              THEN log[k].realized_pnl_trade ELSE Zero)

RealizedMatchesLog(pos, log) ==
    \A s \in DOMAIN pos : pos[s].realized_pnl = LoggedRealized(log, s, Len(log))

\* proceeds - average cost x quantity - commission of a logged SELL, at the
\* average cost the position had when the fill arrived.
SaleResult(entry, avg_price) ==
    RSub(RSub(RMul(RInt(entry.quantity), entry.price),
              RMul(avg_price, RInt(entry.quantity))),
         entry.commission)

\* C32: a position record appears with an accepted BUY fill only and is never
\* deleted afterwards, also when its quantity is back at 0; in every state its
\* realized_pnl is the sum of realized_pnl_trade over the symbol's SELL
\* entries of trade_log, and each SELL entry is logged with proceeds - average
\* cost x quantity - commission at the time of its fill.
C32_RealizedPnlLedger ==
    /\ RealizedMatchesLog(positions, trade_log)
    /\ [][/\ DOMAIN positions \subseteq DOMAIN positions'
          /\ DOMAIN positions' # DOMAIN positions
                => /\ Len(trade_log') = Len(trade_log) + 1
                   /\ trade_log'[Len(trade_log')].action = "BUY"
                   /\ DOMAIN positions' =
                          DOMAIN positions \cup {trade_log'[Len(trade_log')].symbol}
          /\ RealizedMatchesLog(positions', trade_log')
          /\ (/\ Len(trade_log') = Len(trade_log) + 1
              /\ trade_log'[Len(trade_log')].action = "SELL")
                => /\ trade_log'[Len(trade_log')].symbol \in DOMAIN positions
                   /\ trade_log'[Len(trade_log')].realized_pnl_trade =
                          SaleResult(trade_log'[Len(trade_log')],
                                     positions[trade_log'[Len(trade_log')].symbol].avg_price)
         ]_vars

\* Two units of A bought at 2 have been sold in two fills at the top price:
\* the record is still there with quantity 0 and a realized PnL of 2.
C32_Witness ==
    /\ "A" \in DOMAIN positions
    /\ positions["A"].quantity = 0
    /\ positions["A"].realized_pnl = RInt(2)
    /\ Len(trade_log) = 3
    /\ trade_log[2].action = "SELL"
    /\ trade_log[3].action = "SELL"

(***************************************************************************)
(* Claims: the pending queue                                               *)
(***************************************************************************)
QueuedIffPending(book, queue) ==
    /\ DOMAIN queue \subseteq DOMAIN book
    /\ \A i \in DOMAIN book : i \in DOMAIN queue <=> book[i].status = "pending"

\* C34: after every broker operation an order id is in pending_orders exactly
\* when the status recorded for it in orders is pending; an order that leaves
\* the queue in process_pending_orders was evaluated on a bar and is filled or
\* rejected when the call returns, any other order leaves it only by being
\* cancelled, and an order that is out of the queue never enters it again.
C34_QueueMatchesStatus ==
    /\ QueuedIffPending(orders, pending_orders)
    /\ [][/\ QueuedIffPending(orders', pending_orders')
          /\ \A i \in DOMAIN pending_orders \ DOMAIN pending_orders' :
                IF lastOp'.op = "process_pending_orders"
                THEN /\ i \in DOMAIN lastOp'.evaluated
                     /\ orders'[i].status \in {"filled", "rejected"}
                ELSE /\ lastOp'.op = "cancel_order"
                     /\ orders'[i].status = "cancelled"
          /\ \A i \in DOMAIN orders \ DOMAIN pending_orders :
                /\ i \notin DOMAIN pending_orders'
                /\ orders'[i].status = orders[i].status
         ]_vars

\* process_pending_orders has just rejected a triggered BUY for lack of cash
\* while another order stays queued.
C34_Witness ==
    /\ lastOp.op = "process_pending_orders"
    /\ \E i \in DOMAIN lastOp.evaluated :
          /\ orders[i].status = "rejected"
          /\ orders[i].message = "Insufficient cash"
          /\ i \notin DOMAIN pending_orders
    /\ \E j \in DOMAIN pending_orders : orders[j].status = "pending"

(***************************************************************************)
(* Claims: the risk ledger                                                 *)
(***************************************************************************)
\* The aggregate is the sum of the entries, and every entry is > 0.
LedgerAddsUp(rm) ==
    /\ rm.current_total_risk_amount =
           SumOver(rm.positions_risk, DOMAIN rm.positions_risk)
    /\ RGe(rm.current_total_risk_amount, Zero)
    /\ \A s \in DOMAIN rm.positions_risk : RGt(rm.positions_risk[s], Zero)

\* C36: in every state reached by adjust_order_size, validate_signal and the
\* other calls of the risk manager, current_total_risk_amount is the sum of
\* the entries of positions_risk and is >= 0; a BUY/SHORT with a stop that is
\* sized for a symbol leaves that symbol's entry at the risk of the returned
\* order, the aggregate at the old aggregate less the symbol's old entry plus
\* the new one, and the other symbols' entries as they were.
C36_AggregateIsSum ==
    /\ LedgerAddsUp(RiskState)
    /\ \A a \in Adjustments :
          (/\ Opening(a.signal)
           /\ SizedAbove0(a.result)
           /\ IsNumber(a.signal.stop_loss_price)
           /\ RGt(a.signal.stop_loss_price, Zero))
              => /\ a.signal.symbol \in DOMAIN a.result.rm.positions_risk
                 /\ a.result.rm.positions_risk[a.signal.symbol] = OrderRisk(a.result.order)
                 /\ a.result.rm.current_total_risk_amount =
                        RAdd(RSub(current_total_risk_amount,
                                  RiskOf(positions_risk, a.signal.symbol)),
                             OrderRisk(a.result.order))
                 /\ \A other \in (DOMAIN positions_risk
                                  \cup DOMAIN a.result.rm.positions_risk)
                                 \ {a.signal.symbol} :
                        RiskOf(a.result.rm.positions_risk, other)
                            = RiskOf(positions_risk, other)

\* A BUY of A has just been sized again while A and B each held an allocation
\* of 2000: A's entry is now 1000 and the aggregate 3000.
C36_Witness ==
    /\ lastOp.op = "adjust_order_size"
    /\ lastOp.action = "BUY"
    /\ lastOp.sized
    /\ positions_risk = [s \in {"A", "B"} |-> IF s = "A" THEN RInt(1000) ELSE RInt(2000)]
    /\ current_total_risk_amount = RInt(3000)

(***************************************************************************)
(* Claims: risk allocated and positions held                               *)
(***************************************************************************)
\* BUY signals as the strategy hands them over: sized by the risk manager,
\* to be placed as a MARKET or as a LIMIT order.
BuyInputs ==
    {HandlerInput("dict", Signal("BUY", "A", None, RInt(2), RInt(1)), t, None) :
        t \in {"", "LIMIT"}}

\* process_signal from the risk gate on, when the portfolio summary answers
\* the view ps under the keys the risk manager reads.
HandledOn(input, ps, broker_raises, quotes) ==
    AfterGate(World,
              RiskGate(RiskState, position_sizing_method, input.signal, ps,
                       GetPosition(positions, input.signal.symbol)),
              is_connected, input, ids_issued + 1,
              QuotesFor(br_provider, quotes)["A"], QuotesFor(pf_provider, quotes),
              Config, broker_raises)

\* Every symbol with an entry in the risk ledger is held by the Portfolio.
RiskOnlyForHoldings(rm, pf) ==
    \A s \in DOMAIN rm.positions_risk :
        rm.positions_risk[s] # Zero => Held(pf.positions, s) > 0

C35_NothingAllocatedThroughSummary ==
    /\ DOMAIN positions_risk = {}
    /\ current_total_risk_amount = Zero

\* In the current state a BUY that the risk manager sizes on a solvent view is
\* not filled by the broker (it fails or stays pending) and its risk stays in
\* the ledger with nothing of the symbol held.
C35_AllocatedUnfilled ==
    \E input \in BuyInputs, broker_raises \in BOOLEAN :
        \E r \in {HandledOn(input,
                            PortfolioState(RInt(InitialCapital), RInt(InitialCapital)),
                            broker_raises, NoQuotes)} :
            /\ r.status \in {"failed", "pending", "rejected"}
            /\ "A" \in DOMAIN r.rm.positions_risk
            /\ RGt(r.rm.positions_risk["A"], Zero)
            /\ Held(r.w.pf.positions, "A") = 0

(***************************************************************************)
(* Claims: Portfolio cash during a backtest                                *)
(***************************************************************************)
\* C37 as stated: throughout any backtest run the Portfolio's cash is never
\* negative, after no fill logged either, whatever initial cash the broker
\* was configured with and whatever orders earlier runs placed.
C37_CashNeverNegative ==
    /\ RGe(cash, Zero)
    /\ \A i \in 1..Len(trade_log) : RGe(trade_log[i].cash_after_trade, Zero)

\* What the code keeps of C37: the broker tests a BUY against its own cash
\* balance, which is never negative.
C37_BrokerCashNeverNegative == RGe(cash_balance, Zero)

\* During a run a BUY that the broker could pay from its own balance has
\* taken the Portfolio's cash below zero.
C37_Overdrawn ==
    /\ engine.pc # "idle"
    /\ RLt(cash, Zero)
    /\ RGe(cash_balance, Zero)
    /\ trade_log # <<>>
    /\ trade_log[Len(trade_log)].action = "BUY"

(***************************************************************************)
(* Claims: trade statistics                                                *)
(***************************************************************************)
IsBuy(t) == t.action \in {"BUY", "buy"}

\* The SELL entries of a log that carry a realized PnL.
TaggedSells(log) ==
    {i \in 1..Len(log) : log[i].action \in {"SELL", "sell"}
                         /\ ~IsNone(log[i].realized_pnl_trade)}

\* The log with entry t put in before position k.
WithEntryAt(log, t, k) ==
    SubSeq(log, 1, k - 1) \o <<t>> \o SubSeq(log, k, Len(log))

\* The log without its entry at position k.
WithoutEntryAt(log, k) == SubSeq(log, 1, k - 1) \o SubSeq(log, k + 1, Len(log))

\* The log with the entries at k and k + 1 in each other's place.
WithEntriesSwapped(log, k) ==
    [i \in 1..Len(log) |-> IF i = k THEN log[k + 1]
                           ELSE IF i = k + 1 THEN log[k] ELSE log[i]]

\* The logs one BUY entry away from a log: a BUY entry added anywhere, a BUY
\* entry taken out, a BUY entry moved past its neighbour.
BuyEdits(log) ==
    {WithEntryAt(log, t, k) :
        t \in {x \in LoggedTrades : IsBuy(x)}, k \in 1..(Len(log) + 1)}
    \cup {WithoutEntryAt(log, k) : k \in {i \in 1..Len(log) : IsBuy(log[i])}}
    \cup {WithEntriesSwapped(log, k) :
            k \in {i \in 1..(Len(log) - 1) : IsBuy(log[i]) \/ IsBuy(log[i + 1])}}

\* The statistics the claim is about.
WinLossFigures(stats) ==
    <<stats.winning_trades, stats.losing_trades, stats.win_rate,
      stats.profit_factor, stats.average_win_amount, stats.average_loss_amount>>

\* C33: winning_trades, losing_trades, win_rate, profit factor and average
\* win and loss of a trade log are those of every log that differs from it by
\* a BUY entry added, removed or moved; winning_trades + losing_trades is at
\* most the number of SELL entries with a realized PnL; and a call of
\* get_trade_statistics returns the statistics of the log as it stands and
\* leaves the trade log and the portfolio history as they were.
C33_StatisticsFromTaggedSells ==
    /\ \A stats \in {GetTradeStatistics(trade_log)} :
          /\ \A other \in BuyEdits(trade_log) :
                WinLossFigures(GetTradeStatistics(other)) = WinLossFigures(stats)
          /\ stats.winning_trades + stats.losing_trades
                 <= Cardinality(TaggedSells(trade_log))
          /\ stats.winning_trades =
                 Cardinality({i \in TaggedSells(trade_log) :
                                 RGt(trade_log[i].realized_pnl_trade, Zero)})
          /\ stats.losing_trades =
                 Cardinality({i \in TaggedSells(trade_log) :
                                 RLt(trade_log[i].realized_pnl_trade, Zero)})
    /\ [][lastOp'.op = "get_trade_statistics"
             => /\ trade_log' = trade_log
                /\ portfolio_history' = portfolio_history
                /\ WinLossFigures(lastOp'.result) =
                       <<Cardinality({i \in TaggedSells(trade_log) :
                                        RGt(trade_log[i].realized_pnl_trade, Zero)}),
                         Cardinality({i \in TaggedSells(trade_log) :
                                        RLt(trade_log[i].realized_pnl_trade, Zero)}),
                         lastOp'.result.win_rate, lastOp'.result.profit_factor,
                         lastOp'.result.average_win_amount,
                         lastOp'.result.average_loss_amount>>]_vars

\* The statistics of a log with a BUY entry that carries a PnL of its own, a
\* losing SELL and a winning SELL in lower case have just been computed: one
\* win, one loss, a win rate of 1/2.
C33_Witness ==
    /\ lastOp.op = "get_trade_statistics"
    /\ Len(trade_log) = 3
    /\ trade_log[1] = LoggedTrade("BUY", RInt(1))
    /\ trade_log[2] = LoggedTrade("SELL", RInt(-1))
    /\ trade_log[3] = LoggedTrade("sell", RInt(1))
    /\ lastOp.result.winning_trades = 1
    /\ lastOp.result.losing_trades = 1
    /\ lastOp.result.win_rate = Rat(1, 2)
    /\ lastOp.result.profit_factor = RInt(1)

====
